---------------------------- MODULE Spec2Model ----------------------------
(***************************************************************************)
(* A model of the NEXUS ingestion -> analysis -> alerting pipeline:        *)
(*   - GeminiClient.analyze_screen / AnalysisEngine.analyze_capture        *)
(*     (SpecAnalysis: the analysis of one capture as a function of the     *)
(*     capture, the inference reply and the outcome of the context read),  *)
(*   - ProactiveAgent (SpecAgent: rule evaluation and cooldown state),     *)
(*   - AnalysisEngine's two queues and consumer loops (Spec).              *)
(*                                                                         *)
(* A Python str is a sequence of one-character strings, so that lower(),   *)
(* `in` and re.sub are computed; dict keys and alert types, which the code *)
(* only writes as literals, are TLA+ strings. A value of a dynamically     *)
(* typed field (a field of the inference reply) is a tagged record, see    *)
(* Str, Bool, Num, Null, List and Missing.                                 *)
(***************************************************************************)
EXTENDS Integers, Sequences, FiniteSets, TLC

VARIABLES
    \* --- one call of a function under check (SpecAnalysis) ---
    arg,                    \* the inputs of the call
    ret,                    \* its outcome, NoCall before the call
    \* --- ProactiveAgent (src/core/proactive_agent.py:28-35) ---
    alert_history,          \* alert_type -> time of the last alert; no key if none
    alert_count,
    on_alert_callback,      \* TRUE when a callback is registered
    events,                 \* the events table: contents of the audit records
    delivered,              \* alert_data handed to on_alert_callback, in order
    now,                    \* datetime.now(), in seconds
    n_ticks,
    n_evals,
    ev,                     \* the last evaluate_situation call: inputs and outcome
    \* --- AnalysisEngine (src/core/analysis_engine.py:26-35) ---
    running,
    analysis_queue,
    audio_queue,
    processed_count,
    audio_processed_count,
    on_analysis_callback,   \* TRUE when a callback is registered
    pc,                     \* consumer -> position in its loop
    cur,                    \* consumer -> the item it holds, NoItem if none
    analysis,               \* consumer -> the analysis of the item it holds
    activities,             \* the activities table, in insertion order
    embeddings,             \* ids present in the vector index
    trace,                  \* consumer -> the events of its items, see Event
    n_enq,                  \* consumer -> number of items enqueued so far
    stopped                 \* whether stop() has been called, and the items then held

pureVars == <<arg, ret>>
agentVars == <<alert_history, alert_count, on_alert_callback, events, delivered,
               now, n_ticks, n_evals, ev>>
engineVars == <<running, analysis_queue, audio_queue, processed_count,
                audio_processed_count, on_analysis_callback, pc, cur, analysis,
                activities, embeddings, trace, n_enq, stopped>>
vars == <<arg, ret, alert_history, alert_count, on_alert_callback, events, delivered,
          now, n_ticks, n_evals, ev, running, analysis_queue, audio_queue,
          processed_count, audio_processed_count, on_analysis_callback, pc, cur,
          analysis, activities, embeddings, trace, n_enq, stopped>>

(***************************************************************************)
(* Python strings                                                          *)
(***************************************************************************)
UpperCase == <<"A","B","C","D","E","F","G","H","I","J","K","L","M",
               "N","O","P","Q","R","S","T","U","V","W","X","Y","Z">>
LowerCase == <<"a","b","c","d","e","f","g","h","i","j","k","l","m",
               "n","o","p","q","r","s","t","u","v","w","x","y","z">>
Digits == {"0","1","2","3","4","5","6","7","8","9"}

\* str.lower() left out
LowerIdentity(s) == s

\* str.lower() on one character
LowerChar(c) ==
    IF \E i \in DOMAIN UpperCase : UpperCase[i] = c
    THEN LowerCase[CHOOSE i \in DOMAIN UpperCase : UpperCase[i] = c]
    ELSE c

\* str.lower()
Lower(s) == [i \in DOMAIN s |-> LowerChar(s[i])]

\* `needle in hay` for two strings
Contains(needle, hay) ==
    \E i \in 0..(Len(hay) - Len(needle)) : SubSeq(hay, i + 1, i + Len(needle)) = needle

\* any(k in hay for k in needles)
AnyIn(needles, hay) == \E k \in DOMAIN needles : Contains(needles[k], hay)

\* \s and \w of the re module, on the characters of the model
IsSpace(c) == c \in {" ", "\n", "\t"}
IsWordChar(c) ==
    \/ c \in Digits
    \/ c = "_"
    \/ \E i \in DOMAIN UpperCase : UpperCase[i] = c \/ LowerCase[i] = c

(***************************************************************************)
(* Dynamically typed values                                                *)
(***************************************************************************)
Missing == [t |-> "missing"]        \* the key is not in the dict
Null == [t |-> "null"]              \* None
Str(s) == [t |-> "str", s |-> s]
Bool(b) == [t |-> "bool", b |-> b]
Num(n) == [t |-> "num", n |-> n]
List(l) == [t |-> "list", l |-> l]

\* bool(v)
Truthy(v) ==
    CASE v.t = "str" -> Len(v.s) > 0
      [] v.t = "bool" -> v.b
      [] v.t = "num" -> v.n # 0
      [] v.t = "list" -> Len(v.l) > 0
      [] OTHER -> FALSE

\* dict.get(key, default)
Get(d, key, default) == IF d[key] = Missing THEN default ELSE d[key]

(***************************************************************************)
(* String literals of the program                                          *)
(***************************************************************************)
S_low == <<"l","o","w">>
S_medium == <<"m","e","d","i","u","m">>
S_high == <<"h","i","g","h">>
S_critical == <<"c","r","i","t","i","c","a","l">>
S_Unknown == <<"U","n","k","n","o","w","n">>
S_UnknownActivity ==
    <<"U","n","k","n","o","w","n"," ","a","c","t","i","v","i","t","y">>
S_Using == <<"U","s","i","n","g"," ">>
S_true == <<"t","r","u","e">>
S_REDACTED == <<"[","R","E","D","A","C","T","E","D","]">>
S_AttentionNeeded ==
    <<"A","t","t","e","n","t","i","o","n"," ","n","e","e","d","e","d">>
S_audio == <<"a","u","d","i","o">>
S_Listening ==
    <<"L","i","s","t","e","n","i","n","g"," ","t","o"," ","a","u","d","i","o">>
S_SystemAudio == <<"S","y","s","t","e","m"," ","A","u","d","i","o">>
S_AudioChunk == <<"A","u","d","i","o"," ","C","h","u","n","k">>

\* the priorities trigger_alert documents
Priorities == {S_low, S_medium, S_high, S_critical}

(***************************************************************************)
(* utils/privacy.py: redact_sensitive_data                                 *)
(***************************************************************************)
\* Config.REDACT_PATTERNS, in order. A "digits" pattern is \b<tmpl>\b, where
\* "d" of tmpl stands for \d; a "key" pattern is <prefix><sep>*\S+ (or
\* <sep>+ when min = 1), where sep is \s, and ":" too when colon is TRUE.
DigitRun(n) == [i \in 1..n |-> "d"]
REDACT_PATTERNS ==
    << [kind |-> "digits", tmpl |-> DigitRun(16)],
       [kind |-> "digits", tmpl |-> DigitRun(15)],
       [kind |-> "digits", tmpl |-> DigitRun(3) \o <<"-">> \o DigitRun(2) \o <<"-">> \o DigitRun(4)],
       [kind |-> "digits", tmpl |-> DigitRun(9)],
       [kind |-> "key", colon |-> TRUE, min |-> 0,
        prefixes |-> << <<"p","a","s","s","w","o","r","d">> >>],
       [kind |-> "key", colon |-> TRUE, min |-> 0,
        prefixes |-> << <<"a","p","i","k","e","y">>,
                        <<"a","p","i","_","k","e","y">>,
                        <<"a","p","i","-","k","e","y">> >>],
       [kind |-> "key", colon |-> TRUE, min |-> 0,
        prefixes |-> << <<"s","e","c","r","e","t">> >>],
       [kind |-> "key", colon |-> TRUE, min |-> 0,
        prefixes |-> << <<"t","o","k","e","n">> >>],
       [kind |-> "key", colon |-> FALSE, min |-> 1,
        prefixes |-> << <<"b","e","a","r","e","r">> >>] >>

\* the index of the last character of the match of a "digits" pattern that
\* starts at i, 0 when there is none
DigitsMatchEnd(s, i, p) ==
    LET e == i + Len(p.tmpl) - 1
    IN IF /\ e <= Len(s)
          /\ \A k \in DOMAIN p.tmpl :
                IF p.tmpl[k] = "d" THEN s[i + k - 1] \in Digits
                                   ELSE s[i + k - 1] = p.tmpl[k]
          /\ (i = 1 \/ ~IsWordChar(s[i - 1]))
          /\ (e = Len(s) \/ ~IsWordChar(s[e + 1]))
       THEN e ELSE 0

\* the same for a "key" pattern: the prefix (case-insensitively), then the
\* longest run of separators, then the longest run of \S; when nothing is
\* left for \S+ the separators give characters back, last first
KeyMatchEnd(s, i, p) ==
    LET hits == {k \in DOMAIN p.prefixes :
                    /\ i + Len(p.prefixes[k]) - 1 <= Len(s)
                    /\ Lower(SubSeq(s, i, i + Len(p.prefixes[k]) - 1)) = p.prefixes[k]}
        IsSep(c) == IsSpace(c) \/ (p.colon /\ c = ":")
    IN IF hits = {} THEN 0
       ELSE LET j == i + Len(p.prefixes[CHOOSE k \in hits : TRUE])
                nonsep == {m \in j..Len(s) : ~IsSep(s[m])}
                k == IF nonsep = {} THEN Len(s) + 1
                     ELSE CHOOSE m \in nonsep : \A m2 \in nonsep : m <= m2
                stops == {m \in k..Len(s) : IsSpace(s[m])}
                back == {m \in (j + p.min)..Len(s) : ~IsSpace(s[m])}
            IN IF k <= Len(s)
               THEN IF k - j < p.min THEN 0
                    ELSE IF stops = {} THEN Len(s)
                    ELSE (CHOOSE m \in stops : \A m2 \in stops : m <= m2) - 1
               ELSE IF back = {} THEN 0
                    ELSE CHOOSE m \in back : \A m2 \in back : m >= m2

MatchEnd(s, i, p) ==
    IF p.kind = "digits" THEN DigitsMatchEnd(s, i, p) ELSE KeyMatchEnd(s, i, p)

\* re.sub(pattern, '[REDACTED]', s, flags=re.IGNORECASE), scanning from i
RECURSIVE SubFrom(_, _, _)
SubFrom(s, i, p) ==
    IF i > Len(s) THEN <<>>
    ELSE LET e == MatchEnd(s, i, p)
         IN IF e > 0 THEN S_REDACTED \o SubFrom(s, e + 1, p)
                     ELSE <<s[i]>> \o SubFrom(s, i + 1, p)

RECURSIVE RedactFrom(_, _)
RedactFrom(s, n) ==
    IF n > Len(REDACT_PATTERNS) THEN s
    ELSE RedactFrom(SubFrom(s, 1, REDACT_PATTERNS[n]), n + 1)

\* redact_sensitive_data(text) for a str; re.sub raises TypeError on any
\* other truthy value, which the caller of this operator models
redact_sensitive_data(text) == IF Len(text) = 0 THEN text ELSE RedactFrom(text, 1)

(***************************************************************************)
(* services/gemini_client.py: analyze_screen                               *)
(***************************************************************************)
AnalysisKeys ==
    {"activity", "intent", "issues", "should_interrupt", "interrupt_message",
     "tags", "priority", "extracted_text", "error", "transcription"}

EmptyDict == [k \in AnalysisKeys |-> Missing]

\* str(v).lower() == 'true': str() of None, of a number or of a list never
\* lower-cases to 'true'
StrLowerIsTrue(v) == v.t = "str" /\ Lower(v.s) = S_true

\* the defaults of _validate_analysis
ValidateDefaults ==
    [activity |-> Str(S_UnknownActivity), intent |-> Str(S_Unknown),
     issues |-> List(<<>>), should_interrupt |-> Bool(FALSE),
     interrupt_message |-> Str(<<>>), tags |-> List(<<>>),
     priority |-> Str(S_low), extracted_text |-> Str(<<>>)]

\* what the loop body of _validate_analysis leaves under `key`
ValidatedField(d, key) ==
    LET v == IF d[key] = Missing THEN ValidateDefaults[key] ELSE d[key]
    IN IF key = "should_interrupt" /\ v.t # "bool" THEN Bool(StrLowerIsTrue(v))
       ELSE IF key \in {"issues", "tags"} /\ v.t # "list"
            THEN (IF Truthy(v) THEN List(<<v>>) ELSE List(<<>>))
       ELSE v

_validate_analysis(d) ==
    [k \in AnalysisKeys |-> IF k \in DOMAIN ValidateDefaults THEN ValidatedField(d, k) ELSE d[k]]

\* error is str(e), or None when no exception was caught
_default_analysis(app_name, error) ==
    [EmptyDict EXCEPT
        !["activity"] = Str(S_Using \o app_name),
        !["intent"] = Str(S_Unknown),
        !["issues"] = List(<<>>),
        !["should_interrupt"] = Bool(FALSE),
        !["interrupt_message"] = Str(<<>>),
        !["tags"] = IF app_name # S_Unknown THEN List(<<Str(Lower(app_name))>>) ELSE List(<<>>),
        !["priority"] = Str(S_low),
        !["extracted_text"] = Str(<<>>),
        !["error"] = error]

\* analyze_screen on the outcome `reply` of reading the image and calling the
\* vision model:
\*   "raise"   open() or generate_content raised, msg is str(e)
\*   "text"    the reply holds no {...}
\*   "badjson" the reply holds {...} that json.loads rejects, msg is str(e)
\*   "json"    json.loads returned the dict obj
analyze_screen(app_name, reply) ==
    CASE reply.kind = "raise" -> _default_analysis(app_name, Str(reply.msg))
      [] reply.kind = "badjson" -> _default_analysis(app_name, Str(reply.msg))
      [] reply.kind = "text" -> _validate_analysis(_default_analysis(app_name, Null))
      [] reply.kind = "json" -> _validate_analysis(reply.obj)

(***************************************************************************)
(* core/analysis_engine.py: analyze_capture                                *)
(***************************************************************************)
NoValue == [t |-> "none"]
Returned(v) == [raised |-> FALSE, exc |-> "", value |-> v]
Raised(e) == [raised |-> TRUE, exc |-> e, value |-> NoValue]

\* analyze_capture(capture_data), given whether db.get_recent_activities
\* returns (dbReadOk) and the outcome of the inference call (reply)
analyze_capture(capture_data, dbReadOk, reply) ==
    IF ~dbReadOk THEN Raised("sqlite3.Error")
    ELSE LET a == analyze_screen(capture_data.app_name, reply)
             text == a["extracted_text"]
         IN IF text # Missing /\ Truthy(text)
            THEN IF text.t = "str"
                 THEN Returned([a EXCEPT !["extracted_text"] = Str(redact_sensitive_data(text.s))])
                 ELSE Raised("TypeError")
            ELSE Returned(a)

(***************************************************************************)
(* core/proactive_agent.py                                                 *)
(***************************************************************************)
EmailApps ==
    << <<"m","a","i","l">>, <<"o","u","t","l","o","o","k">>, <<"g","m","a","i","l">>,
       <<"t","h","u","n","d","e","r","b","i","r","d">>, <<"s","p","a","r","k">>,
       <<"a","i","r","m","a","i","l">> >>
ComposeWords ==
    << <<"c","o","m","p","o","s","e">>, <<"n","e","w"," ","m","e","s","s","a","g","e">>,
       <<"r","e","p","l","y">>, <<"f","o","r","w","a","r","d">>, <<"d","r","a","f","t">> >>
AttachmentKeywords ==
    << <<"a","t","t","a","c","h">>, <<"a","t","t","a","c","h","e","d">>,
       <<"a","t","t","a","c","h","m","e","n","t">>, <<"a","t","t","a","c","h","i","n","g">>,
       <<"e","n","c","l","o","s","e","d">>, <<"e","n","c","l","o","s","i","n","g">>,
       <<"f","i","n","d"," ","t","h","e"," ","f","i","l","e">>,
       <<"s","e","e"," ","f","i","l","e">> >>
PasswordIndicators ==
    << <<"[","r","e","d","a","c","t","e","d","]">>, <<"p","a","s","s","w","o","r","d",":">>,
       <<"p","w","d",":">>, <<"s","e","c","r","e","t",":">> >>
SecureApps ==
    << <<"k","e","y","c","h","a","i","n">>, <<"1","p","a","s","s","w","o","r","d">>,
       <<"l","a","s","t","p","a","s","s">>, <<"d","a","s","h","l","a","n","e">>,
       <<"b","i","t","w","a","r","d","e","n">> >>
SharingIndicators ==
    << <<"s","h","a","r","e">>, <<"m","e","e","t","i","n","g">>, <<"c","a","l","l">>,
       <<"z","o","o","m">>, <<"t","e","a","m","s">>, <<"m","e","e","t">> >>
\* the alert messages, without their leading emoji
MsgEmail ==
    <<"Y","o","u"," ","m","e","n","t","i","o","n","e","d"," ","a","n"," ",
      "a","t","t","a","c","h","m","e","n","t"," ","b","u","t"," ","I"," ",
      "d","o","n","'","t"," ","s","e","e"," ","o","n","e"," ","a","t","t",
      "a","c","h","e","d","."," ","D","i","d"," ","y","o","u"," ","f","o",
      "r","g","e","t","?">>
MsgDuplicate ==
    <<"Y","o","u"," ","d","i","d"," ","v","e","r","y"," ","s","i","m","i",
      "l","a","r"," ","w","o","r","k"," ","r","e","c","e","n","t","l","y",
      "."," ","W","a","n","t"," ","t","o"," ","r","e","u","s","e"," ","i",
      "t","?">>
MsgPassword ==
    <<"P","o","t","e","n","t","i","a","l"," ","p","a","s","s","w","o","r",
      "d"," ","v","i","s","i","b","l","e"," ","w","h","i","l","e"," ","s",
      "c","r","e","e","n"," ","s","h","a","r","i","n","g","!">>

AlertTypes == {"ai_interrupt", "email_no_attachment", "duplicate_work", "password_exposed"}

\* Config.ALERT_COOLDOWN, seconds
ALERT_COOLDOWN == 300
\* Config.PROACTIVE_ENABLED, with PROACTIVE_ENABLED unset in the environment
PROACTIVE_ENABLED == TRUE
\* the distance below which check_duplicate_work fires (0.1), in hundredths
DuplicateDistance == 10

\* capture_data.get(field, '')
CdGet(cd, field) == IF field \in DOMAIN cd THEN cd[field] ELSE <<>>

\* The state an evaluation works on, and what it has done so far:
\*   history, count, events, delivered   the agent's and the database's state
\*   registered   on_alert_callback is set
\*   fired        the alerts trigger_alert has recorded in this evaluation
\*   checked      the alert types whose cooldown recently_alerted was asked for
\*   stores       the store_event calls made, in order: the alert type and
\*                whether the write succeeded
\*   similar      what the vector search of check_duplicate_work gave
\*   cb_called, cb_raised   on_alert_callback was awaited, and it raised
\*   raised, exc  an exception is propagating
\*   result       the value the last check_* returned
\* Each operation below gives the set of frames it may end in, one for each
\* outcome of the calls it makes to the database, the vector index and the
\* callback.
NoQuery == [ok |-> FALSE, dist |-> <<>>, asked |-> FALSE]
Frame(history, count, evts, dlv, registered) ==
    [history |-> history, count |-> count, events |-> evts, delivered |-> dlv,
     registered |-> registered, fired |-> <<>>, checked |-> {}, stores |-> <<>>,
     similar |-> NoQuery, cb_called |-> FALSE, cb_raised |-> FALSE,
     raised |-> FALSE, exc |-> "", result |-> FALSE]

Raise(r, e) == [r EXCEPT !.raised = TRUE, !.exc = e]
Return(r, b) == [r EXCEPT !.result = b]

\* recently_alerted with the window closed at its end: an alert that is
\* exactly ALERT_COOLDOWN old still counts as recent
recently_alerted_inclusive(h, alert_type, t) ==
    IF alert_type \notin DOMAIN h THEN FALSE
    ELSE t - h[alert_type] <= ALERT_COOLDOWN

\* recently_alerted with one cooldown for all types
recently_alerted_any_type(h, alert_type, t) ==
    \E k \in DOMAIN h : t - h[k] < ALERT_COOLDOWN

\* recently_alerted(alert_type) at time t with alert_history h
recently_alerted(h, alert_type, t) ==
    IF alert_type \notin DOMAIN h THEN FALSE
    ELSE t - h[alert_type] < ALERT_COOLDOWN

\* the frame after recently_alerted(alert_type) has been asked
Asked(r, alert_type) == [r EXCEPT !.checked = @ \cup {alert_type}]

\* self.alert_history[alert_type] = datetime.now()
Stamp(h, alert_type, t) ==
    [k \in DOMAIN h \cup {alert_type} |-> IF k = alert_type THEN t ELSE h[k]]

\* the callback awaited with no try around it: its exception propagates
CallbackOutcomesUnguarded(r, alert) ==
    IF r.registered
    THEN {[r EXCEPT !.delivered = Append(@, alert), !.cb_called = TRUE],
          Raise([r EXCEPT !.delivered = Append(@, alert), !.cb_called = TRUE,
                          !.cb_raised = TRUE], "Exception")}
    ELSE {r}

\* the outcomes of `await self.on_alert_callback(alert_data)` inside its try
CallbackOutcomes(r, alert) ==
    IF r.registered
    THEN {[r EXCEPT !.delivered = Append(@, alert), !.cb_called = TRUE, !.cb_raised = cr] :
            cr \in BOOLEAN}
    ELSE {r}

\* trigger_alert with the stamp and the count set before the audit write
trigger_alert_stamp_first(r, t, message, priority, alert_type) ==
    LET alert == [message |-> message, priority |-> priority,
                  timestamp |-> t, type |-> alert_type]
        r0 == [r EXCEPT !.history = Stamp(@, alert_type, t), !.count = @ + 1]
        r1 == [r0 EXCEPT
                !.stores = Append(@, [type |-> alert_type, ok |-> TRUE]),
                !.events = Append(@, [event_type |-> "proactive_alert", content |-> message]),
                !.fired = Append(@, alert)]
    IN {Raise([r0 EXCEPT !.stores = Append(@, [type |-> alert_type, ok |-> FALSE])],
              "sqlite3.Error")}
       \cup CallbackOutcomes(r1, alert)

\* trigger_alert at time t: store_event raises, or the alert is recorded,
\* stamped, counted and handed to the callback
trigger_alert(r, t, message, priority, alert_type) ==
    LET alert == [message |-> message, priority |-> priority,
                  timestamp |-> t, type |-> alert_type]
        r1 == [r EXCEPT
                !.stores = Append(@, [type |-> alert_type, ok |-> TRUE]),
                !.events = Append(@, [event_type |-> "proactive_alert", content |-> message]),
                !.history = Stamp(@, alert_type, t),
                !.count = @ + 1,
                !.fired = Append(@, alert)]
    IN {Raise([r EXCEPT !.stores = Append(@, [type |-> alert_type, ok |-> FALSE])],
              "sqlite3.Error")}
       \cup CallbackOutcomes(r1, alert)

\* `return True` after trigger_alert, unless trigger_alert raised
ReturnTrue(rs) == {IF x.raised THEN x ELSE Return(x, TRUE) : x \in rs}

\* the conditions of the email rule, cooldown aside
EmailConditions(cd, an) ==
    LET app_name == Lower(CdGet(cd, "app_name"))
        window_title == Lower(CdGet(cd, "window_title"))
        extracted_text == Lower(Get(an, "extracted_text", Str(<<>>)).s)
        activity == Lower(Get(an, "activity", Str(<<>>)).s)
    IN /\ AnyIn(EmailApps, app_name) \/ AnyIn(ComposeWords, window_title)
       /\ AnyIn(AttachmentKeywords, extracted_text \o <<" ">> \o activity)

check_email_no_attachment(r, t, cd, an) ==
    IF \/ Get(an, "extracted_text", Str(<<>>)).t # "str"
       \/ Get(an, "activity", Str(<<>>)).t # "str"
    THEN {Raise(r, "AttributeError")}
    ELSE IF ~EmailConditions(cd, an) THEN {Return(r, FALSE)}
    ELSE IF recently_alerted(r.history, "email_no_attachment", t)
         THEN {Return(Asked(r, "email_no_attachment"), FALSE)}
    ELSE ReturnTrue(trigger_alert(Asked(r, "email_no_attachment"), t,
                                  Str(MsgEmail), Str(S_high), "email_no_attachment"))

\* What the embedding and the vector search of check_duplicate_work may give:
\* ok is FALSE when one of them raises, else dist holds the distances of the
\* neighbours found, in hundredths
SimilarResults ==
    {[ok |-> TRUE, dist |-> <<>>, asked |-> TRUE],
     [ok |-> TRUE, dist |-> <<50, 5>>, asked |-> TRUE],
     [ok |-> FALSE, dist |-> <<>>, asked |-> TRUE]}

\* check_duplicate_work once the search has given sim. An exception of
\* trigger_alert is caught by the except clause of line 174.
DuplicateWith(r, t, sim) ==
    LET r0 == [r EXCEPT !.similar = sim]
    IN IF ~sim.ok THEN {Return(r0, FALSE)}
       ELSE IF ~\E i \in DOMAIN sim.dist : sim.dist[i] < DuplicateDistance
            THEN {Return(r0, FALSE)}
       ELSE IF recently_alerted(r0.history, "duplicate_work", t)
            THEN {Return(Asked(r0, "duplicate_work"), FALSE)}
       ELSE {IF x.raised THEN Return([x EXCEPT !.raised = FALSE, !.exc = ""], FALSE)
                         ELSE Return(x, TRUE) :
                x \in trigger_alert(Asked(r0, "duplicate_work"), t,
                                    Str(MsgDuplicate), Str(S_low), "duplicate_work")}

check_duplicate_work(r, t, cd, an) ==
    UNION {DuplicateWith(r, t, sim) : sim \in SimilarResults}

\* the conditions of the password rule, cooldown aside
PasswordConditions(cd, an) ==
    LET extracted_text == Lower(Get(an, "extracted_text", Str(<<>>)).s)
        app_name == Lower(CdGet(cd, "app_name"))
        window_title == Lower(CdGet(cd, "window_title"))
    IN /\ AnyIn(PasswordIndicators, extracted_text)
       /\ ~AnyIn(SecureApps, app_name)
       /\ AnyIn(SharingIndicators, window_title)

check_password_exposed(r, t, cd, an) ==
    IF Get(an, "extracted_text", Str(<<>>)).t # "str" THEN {Raise(r, "AttributeError")}
    ELSE IF ~PasswordConditions(cd, an) THEN {Return(r, FALSE)}
    ELSE IF recently_alerted(r.history, "password_exposed", t)
         THEN {Return(Asked(r, "password_exposed"), FALSE)}
    ELSE ReturnTrue(trigger_alert(Asked(r, "password_exposed"), t,
                                  Str(MsgPassword), Str(S_critical), "password_exposed"))

\* ProactiveAgent defines no check_deadline_approaching: the attribute
\* lookup of line 94 raises
check_deadline_approaching(r, t, cd, an) == {Raise(r, "AttributeError")}

\* `if await check(...): return`, then the rest of check_proactive_rules
Then(rs, rest(_)) == UNION {IF x.raised \/ x.result THEN {x} ELSE rest(x) : x \in rs}

check_proactive_rules(r, t, cd, an) ==
    LET Rule4(x) == check_deadline_approaching(x, t, cd, an)
        Rule3(x) == Then(check_password_exposed(x, t, cd, an), Rule4)
        Rule2(x) == Then(check_duplicate_work(x, t, cd, an), Rule3)
    IN Then(check_email_no_attachment(r, t, cd, an), Rule2)

evaluate_situation(r, t, cd, an) ==
    IF ~PROACTIVE_ENABLED THEN {r}
    ELSE IF Truthy(Get(an, "should_interrupt", Bool(FALSE)))
         THEN LET message == Get(an, "interrupt_message", Str(S_AttentionNeeded))
              IN IF ~Truthy(message) THEN {r}
                 ELSE IF recently_alerted(r.history, "ai_interrupt", t)
                      THEN {Asked(r, "ai_interrupt")}
                 ELSE trigger_alert(Asked(r, "ai_interrupt"), t, message,
                                    Get(an, "priority", Str(S_medium)), "ai_interrupt")
         ELSE check_proactive_rules(r, t, cd, an)

(***************************************************************************)
(* Inputs of the model                                                     *)
(***************************************************************************)
S_Mail == <<"M","a","i","l">>
S_Compose == <<"C","o","m","p","o","s","e">>
S_Zoom == <<"Z","o","o","m">>
S_TeamMeeting == <<"T","e","a","m"," ","M","e","e","t","i","n","g">>
S_Code == <<"C","o","d","e">>
S_mainpy == <<"m","a","i","n",".","p","y">>
S_attached ==
    <<"I"," ","a","t","t","a","c","h","e","d"," ","t","h","e"," ","f","i","l","e">>
S_pwd == <<"p","w","d",":"," ","[","R","E","D","A","C","T","E","D","]">>
S_password ==
    <<"p","a","s","s","w","o","r","d",":"," ","h","u","n","t","e","r","2">>
S_WrongRecipient ==
    <<"W","r","o","n","g"," ","r","e","c","i","p","i","e","n","t">>
S_True == <<"T","r","u","e">>
S_timeout == <<"t","i","m","e","o","u","t">>
S_hello == <<"h","e","l","l","o">>
S_urgent == <<"u","r","g","e","n","t">>
S_Writing == <<"W","r","i","t","i","n","g"," ","a","n"," ","e","m","a","i","l">>

\* a screen capture event (capture_manager.capture_frame): the fields the
\* pipeline reads; id stands for its timestamp and file
Capture(id, app, win) ==
    [id |-> id, type |-> "screen", app_name |-> app, window_title |-> win]

AppWindows == {<<S_Mail, S_Compose>>, <<S_Zoom, S_TeamMeeting>>, <<S_Code, S_mainpy>>}

\* dicts that json.loads may return for the reply of the vision model
JsonObjects ==
    {[EmptyDict EXCEPT !["activity"] = Str(S_Writing),
                       !["should_interrupt"] = si,
                       !["interrupt_message"] = msg,
                       !["priority"] = pr,
                       !["extracted_text"] = tx,
                       !["tags"] = tg] :
        si \in {Missing, Bool(FALSE), Bool(TRUE), Str(S_True)},
        msg \in {Str(<<>>), Str(S_WrongRecipient)},
        pr \in {Missing, Null, Str(S_high), Str(S_urgent)},
        tx \in {Missing, Null, Num(42), Str(S_attached), Str(S_password)},
        tg \in {Missing, Str(S_hello)}}

Replies ==
    {[kind |-> "raise", msg |-> S_timeout], [kind |-> "text"],
     [kind |-> "badjson", msg |-> S_timeout]}
    \cup {[kind |-> "json", obj |-> o] : o \in JsonObjects}

\* an audio chunk event (audio_capture.py:119-124) and the analysis the audio
\* consumer hands to the callback (analysis_engine.py:114)
AudioData(id) == [id |-> id, type |-> "audio"]
AudioAnalysis(transcription) ==
    [EmptyDict EXCEPT !["activity"] = Str(S_audio), !["transcription"] = transcription]

\* analyses handed to evaluate_situation: results of analyze_capture, a dict
\* with should_interrupt alone, and the dict of an audio chunk
ScreenAnalyses ==
    {[_validate_analysis(EmptyDict) EXCEPT
        !["activity"] = Str(S_Writing), !["extracted_text"] = Str(tx)] :
        tx \in {<<>>, S_attached, S_pwd}}
    \cup
    {[_validate_analysis(EmptyDict) EXCEPT
        !["activity"] = Str(S_Writing), !["should_interrupt"] = Bool(TRUE),
        !["interrupt_message"] = Str(msg), !["priority"] = Str(pr),
        !["extracted_text"] = Str(tx)] :
        msg \in {<<>>, S_WrongRecipient}, pr \in {S_low, S_critical},
        tx \in {<<>>, S_attached}}
    \cup {[EmptyDict EXCEPT !["should_interrupt"] = Bool(TRUE)]}

Situations ==
    {<<Capture(0, aw[1], aw[2]), an>> : aw \in AppWindows, an \in ScreenAnalyses}
    \cup {<<AudioData(0), AudioAnalysis(Str(S_hello))>>}

\* bounds of SpecAgent
MaxEvals == 2
MaxTicks == 2
\* the amounts of time that pass between two steps of the agent
TickSteps == {1, ALERT_COOLDOWN - 1}

(***************************************************************************)
(* Initial states                                                          *)
(***************************************************************************)
Consumers == {"screen", "audio"}
NoItem == [id |-> 0, type |-> "none"]
NoCall == [called |-> FALSE]

InitPure ==
    /\ arg = NoCall
    /\ ret = NoCall

\* ProactiveAgent.__init__
InitAgent ==
    /\ alert_history = <<>>
    /\ alert_count = 0
    /\ on_alert_callback = FALSE
    /\ events = <<>>
    /\ delivered = <<>>
    /\ now = 0
    /\ n_ticks = 0
    /\ n_evals = 0
    /\ ev = NoCall

\* AnalysisEngine.__init__
InitEngine ==
    /\ running = FALSE
    /\ analysis_queue = <<>>
    /\ audio_queue = <<>>
    /\ processed_count = 0
    /\ audio_processed_count = 0
    /\ on_analysis_callback = FALSE
    /\ pc = [c \in Consumers |-> "off"]
    /\ cur = [c \in Consumers |-> NoItem]
    /\ analysis = [c \in Consumers |-> NoValue]
    /\ activities = <<>>
    /\ embeddings = {}
    /\ trace = [c \in Consumers |-> <<>>]
    /\ n_enq = [c \in Consumers |-> 0]
    /\ stopped = NoCall

(***************************************************************************)
(* SpecAnalysis: one call of AnalysisEngine.analyze_capture                *)
(***************************************************************************)
InitAnalysis ==
    /\ arg \in {[called |-> FALSE, capture_data |-> Capture(1, aw[1], aw[2]),
                 dbReadOk |-> ok, reply |-> r] :
                    aw \in AppWindows, ok \in BOOLEAN, r \in Replies}
    /\ ret = NoCall
    /\ InitAgent
    /\ InitEngine

AnalyzeCapture ==
    /\ ~ret.called
    /\ ret' = [called |-> TRUE,
               out |-> analyze_capture(arg.capture_data, arg.dbReadOk, arg.reply)]
    /\ UNCHANGED <<arg, agentVars, engineVars>>

NextAnalysis == AnalyzeCapture

SpecAnalysis == InitAnalysis /\ [][NextAnalysis]_vars

\* the inference call failed: a transient error or an unparsable response
InferenceFailed(reply) == reply.kind \in {"raise", "text", "badjson"}

\* the default result of the claim: priority low, should_interrupt false,
\* empty issues and interrupt message, and an error marker
IsDefaultResult(a) ==
    /\ a["priority"] = Str(S_low)
    /\ a["should_interrupt"] = Bool(FALSE)
    /\ a["issues"] = List(<<>>)
    /\ a["interrupt_message"] = Str(<<>>)
    /\ a["error"] \notin {Missing, Null}

\* C1: for every capture event analyze_capture returns a result and never
\* raises, and whenever the inference call fails the result is the default
\* one with an error marker.
C1_NeverRaisesDefaultOnFailure ==
    ret.called =>
        /\ ~ret.out.raised
        /\ InferenceFailed(arg.reply) => IsDefaultResult(ret.out.value)

(***************************************************************************)
(* SpecAgent: ProactiveAgent under a stream of evaluate_situation calls    *)
(***************************************************************************)
\* set_alert_callback
SetAlertCallback ==
    /\ ~on_alert_callback
    /\ on_alert_callback' = TRUE
    /\ UNCHANGED <<alert_history, alert_count, events, delivered, now, n_ticks,
                   n_evals, ev, pureVars, engineVars>>

\* time passes
Tick ==
    /\ n_ticks < MaxTicks
    /\ \E d \in TickSteps : now' = now + d
    /\ n_ticks' = n_ticks + 1
    /\ UNCHANGED <<alert_history, alert_count, on_alert_callback, events, delivered,
                   n_evals, ev, pureVars, engineVars>>

\* one call of evaluate_situation(cd, an), run to its end
EvaluateSituation ==
    /\ n_evals < MaxEvals
    /\ \E sit \in Situations :
        LET r0 == Frame(alert_history, alert_count, events, delivered, on_alert_callback)
        IN \E r \in evaluate_situation(r0, now, sit[1], sit[2]) :
            /\ alert_history' = r.history
            /\ alert_count' = r.count
            /\ events' = r.events
            /\ delivered' = r.delivered
            /\ ev' = [called |-> TRUE, capture_data |-> sit[1], analysis |-> sit[2],
                      now |-> now, before |-> r0, after |-> r]
    /\ n_evals' = n_evals + 1
    /\ UNCHANGED <<on_alert_callback, now, n_ticks, pureVars, engineVars>>

NextAgent == SetAlertCallback \/ Tick \/ EvaluateSituation

InitSpecAgent == InitPure /\ InitAgent /\ InitEngine

SpecAgent == InitSpecAgent /\ [][NextAgent]_vars

(***************************************************************************)
(* Claims about the cooldown and the rule order                            *)
(***************************************************************************)
\* the alert types fired in a frame
FiredTypes(r) == {r.fired[i].type : i \in DOMAIN r.fired}

\* the alerts handed to the callback in a frame since frame r0
DeliveredSince(r0, r) == SubSeq(r.delivered, Len(r0.delivered) + 1, Len(r.delivered))
DeliveredTypes(r0, r) ==
    {DeliveredSince(r0, r)[i].type : i \in DOMAIN DeliveredSince(r0, r)}

\* the audit records written in a frame since frame r0
EventsSince(r0, r) == SubSeq(r.events, Len(r0.events) + 1, Len(r.events))

\* type X is inside its cooldown window at time t, as the specification
\* words it
Cooling(h, X, t) == X \in DOMAIN h /\ t - h[X] < ALERT_COOLDOWN

\* the audit write of the alert of type X was made and succeeded
AuditWritten(r, X) == \E i \in DOMAIN r.stores : r.stores[i] = [type |-> X, ok |-> TRUE]
AuditAttempted(r, X) == \E i \in DOMAIN r.stores : r.stores[i].type = X

\* C2: once type X has fired at t0, an attempt to fire X at t0+D (the
\* evaluation reaches X's cooldown check) is suppressed while D is below
\* ALERT_COOLDOWN: no alert of type X, no audit write, no callback and the
\* stamp stays t0. With D at or above ALERT_COOLDOWN the attempt goes through
\* to the audit write, and once that write succeeds X has fired again and
\* its stamp is the time of the attempt.
C2_Cooldown ==
    ev.called =>
        \A X \in ev.after.checked :
            X \in DOMAIN ev.before.history =>
                LET D == ev.now - ev.before.history[X]
                IN /\ D < ALERT_COOLDOWN =>
                        /\ X \notin FiredTypes(ev.after)
                        /\ ~AuditAttempted(ev.after, X)
                        /\ X \notin DeliveredTypes(ev.before, ev.after)
                        /\ ev.after.history[X] = ev.before.history[X]
                   /\ D >= ALERT_COOLDOWN =>
                        /\ AuditAttempted(ev.after, X)
                        /\ AuditWritten(ev.after, X) =>
                            /\ X \in FiredTypes(ev.after)
                            /\ ev.after.history[X] = ev.now

\* an attempt exactly ALERT_COOLDOWN after the last firing fired again
C2_Witness ==
    /\ ev.called
    /\ \E X \in ev.after.checked :
        /\ X \in DOMAIN ev.before.history
        /\ ev.now - ev.before.history[X] = ALERT_COOLDOWN
        /\ X \in FiredTypes(ev.after)
        /\ ev.after.history[X] = ev.now

\* C3: an evaluation changes the cooldown entry of the type it fired and of
\* no other type; and an alert of type B that fired would have been able to
\* fire all the same had any other type A been stamped as just fired.
C3_CooldownIndependence ==
    ev.called =>
        /\ \A k \in AlertTypes :
            k \notin FiredTypes(ev.after) =>
                /\ k \in DOMAIN ev.after.history <=> k \in DOMAIN ev.before.history
                /\ k \in DOMAIN ev.before.history =>
                        ev.after.history[k] = ev.before.history[k]
        /\ \A B \in FiredTypes(ev.after) : \A A \in AlertTypes \ {B} :
            \E r \in evaluate_situation(
                        [ev.before EXCEPT !.history = Stamp(@, A, ev.now)],
                        ev.now, ev.capture_data, ev.analysis) :
                B \in FiredTypes(r)

\* an alert fired in an evaluation that found another type cooling down
C3_Witness ==
    /\ ev.called
    /\ \E A \in ev.after.checked : \E B \in FiredTypes(ev.after) :
        /\ A # B
        /\ Cooling(ev.before.history, A, ev.now)
        /\ ev.after.history[A] = ev.before.history[A]

\* the two string fields the deterministic rules call .lower() on are strings
RuleFieldsAreStrings(an) ==
    /\ Get(an, "extracted_text", Str(<<>>)).t = "str"
    /\ Get(an, "activity", Str(<<>>)).t = "str"

\* the AI-interrupt step of the specification fires: should_interrupt is set,
\* the message is not empty and ai_interrupt is not cooling down
AiInterruptFires(h, an, t) ==
    /\ Truthy(Get(an, "should_interrupt", Bool(FALSE)))
    /\ Truthy(Get(an, "interrupt_message", Str(S_AttentionNeeded)))
    /\ ~Cooling(h, "ai_interrupt", t)

\* the email rule matches: its conditions hold and its type is not cooling
EmailRuleMatches(h, cd, an, t) ==
    /\ RuleFieldsAreStrings(an)
    /\ EmailConditions(cd, an)
    /\ ~Cooling(h, "email_no_attachment", t)

\* C4: whenever the AI-interrupt step does not fire, the deterministic rules
\* are evaluated: if the email rule matches, the evaluation reaches its
\* cooldown check and its audit write, also when should_interrupt is set
\* with an empty message or with ai_interrupt cooling down.
C4_RulesRunWhenAiInterruptDoesNotFire ==
    (/\ ev.called
     /\ ~AiInterruptFires(ev.before.history, ev.analysis, ev.now)
     /\ EmailRuleMatches(ev.before.history, ev.capture_data, ev.analysis, ev.now))
    => /\ "email_no_attachment" \in ev.after.checked
       /\ AuditAttempted(ev.after, "email_no_attachment")

\* one evaluation fires at most one alert
AtMostOneAlert == ev.called => Len(ev.after.fired) <= 1

\* the alert fired is the first of ai_interrupt, email_no_attachment,
\* duplicate_work, password_exposed: no earlier rule matched
Precedence ==
    ev.called =>
        \A X \in FiredTypes(ev.after) :
            /\ X # "ai_interrupt" =>
                    ~AiInterruptFires(ev.before.history, ev.analysis, ev.now)
            /\ X \in {"duplicate_work", "password_exposed"} =>
                    ~EmailRuleMatches(ev.before.history, ev.capture_data,
                                      ev.analysis, ev.now)
            /\ X = "password_exposed" =>
                    \/ ~ev.after.similar.ok
                    \/ ~\E i \in DOMAIN ev.after.similar.dist :
                            ev.after.similar.dist[i] < DuplicateDistance
                    \/ Cooling(ev.before.history, "duplicate_work", ev.now)
                    \/ ~AuditWritten(ev.after, "duplicate_work")

\* the rule after X in the precedence has been evaluated
NextRuleEvaluated(X) ==
    CASE X = "ai_interrupt" ->
            EmailRuleMatches(ev.before.history, ev.capture_data, ev.analysis, ev.now)
                => "email_no_attachment" \in ev.after.checked
      [] X = "email_no_attachment" -> ev.after.similar.asked
      [] X = "duplicate_work" ->
            (/\ PasswordConditions(ev.capture_data, ev.analysis)
             /\ ~Cooling(ev.before.history, "password_exposed", ev.now))
                => "password_exposed" \in ev.after.checked
      [] OTHER -> TRUE

\* a rule whose conditions hold but whose type is cooling down counts as not
\* matched: evaluation goes on to the next rule
FallThrough ==
    ev.called =>
        \A X \in ev.after.checked :
            Cooling(ev.before.history, X, ev.now) => NextRuleEvaluated(X)

\* C5: first match wins: one evaluation fires at most one alert, chosen by
\* the precedence ai_interrupt, email_no_attachment, duplicate_work,
\* password_exposed, and a rule that is cooling down falls through to the
\* next rule.
C5_FirstMatchWins == AtMostOneAlert /\ Precedence /\ FallThrough

\* the scenario of C6: a screen capture of the Mail application in a Compose
\* window, should_interrupt false, the text mentions an attachment, and no
\* type is cooling down
EmailScenario ==
    /\ ev.called
    /\ ev.capture_data.type = "screen"
    /\ ev.capture_data.app_name = S_Mail
    /\ ev.capture_data.window_title = S_Compose
    /\ ev.analysis["should_interrupt"] = Bool(FALSE)
    /\ ev.analysis["extracted_text"] = Str(S_attached)
    /\ \A k \in AlertTypes : ~Cooling(ev.before.history, k, ev.now)

\* C6: in the email scenario the evaluation goes to the audit write of an
\* email_no_attachment alert and of no other, and once that write succeeds
\* exactly one alert has fired, of type email_no_attachment and priority
\* high.
C6_EmailScenarioFiresOneHighAlert ==
    EmailScenario =>
        /\ Len(ev.after.stores) = 1
        /\ ev.after.stores[1].type = "email_no_attachment"
        /\ ev.after.stores[1].ok =>
            /\ Len(ev.after.fired) = 1
            /\ ev.after.fired[1].type = "email_no_attachment"
            /\ ev.after.fired[1].priority = Str(S_high)
            /\ ev.after.count = ev.before.count + 1

\* the email scenario with an email_no_attachment alert fired
C6_Witness ==
    /\ EmailScenario
    /\ FiredTypes(ev.after) = {"email_no_attachment"}

\* C7: every fired alert has its audit record written, its type stamped with
\* the time of firing, and is handed to the registered callback exactly
\* once; when the callback raises, record and stamp are kept, the evaluation
\* returns normally, and a later evaluation can still be made.
C7_FiredAlertRecordedStampedDelivered ==
    ev.called =>
        /\ Len(EventsSince(ev.before, ev.after)) = Len(ev.after.fired)
        /\ \A i \in DOMAIN ev.after.fired :
            /\ EventsSince(ev.before, ev.after)[i] =
                    [event_type |-> "proactive_alert",
                     content |-> ev.after.fired[i].message]
            /\ ev.after.fired[i].type \in DOMAIN ev.after.history
            /\ ev.after.history[ev.after.fired[i].type] = ev.now
        /\ DeliveredSince(ev.before, ev.after) =
                IF ev.before.registered THEN ev.after.fired ELSE <<>>
        /\ ev.after.cb_raised =>
            /\ ~ev.after.raised
            /\ Len(ev.after.fired) = 1
            /\ alert_history = ev.after.history
            /\ events = ev.after.events
            /\ n_evals < MaxEvals => ENABLED EvaluateSituation

\* an alert fired, its callback raised, and the evaluation returned
C7_Witness ==
    /\ ev.called
    /\ ev.after.cb_raised
    /\ Len(ev.after.fired) = 1
    /\ ~ev.after.raised

(***************************************************************************)
(* Spec: AnalysisEngine with its two queues and its two consumer tasks.    *)
(* pc[c] is the position of consumer c in its _process_*_queue coroutine:  *)
(*   off       start() has not created the task                            *)
(*   loop      at the test of `while self.running`                         *)
(*   get       inside asyncio.wait_for(queue.get(), timeout=1.0)           *)
(*   analyze   before analyze_capture / transcribe_audio                   *)
(*   store     before store_analysis / db.store_activity                   *)
(*   callback  before the on_analysis_callback block                       *)
(*   sleep     in the except clause, inside asyncio.sleep(1)               *)
(*   exited    the while loop has ended                                    *)
(* trace[c] is the history of the items of consumer c: dequeue, analyze,   *)
(* callback, then done or failed.                                          *)
(***************************************************************************)
\* bound on the items enqueued per modality
MaxItems == 2

InFlight == {"analyze", "store", "callback"}

Queue(c) == IF c = "screen" THEN analysis_queue ELSE audio_queue

\* the replies of the vision model the engine is run with
EngineReplies ==
    {[kind |-> "json",
      obj |-> [EmptyDict EXCEPT !["activity"] = Str(S_Writing),
                                !["extracted_text"] = Str(S_attached)]],
     [kind |-> "json",
      obj |-> [EmptyDict EXCEPT !["activity"] = Str(S_Writing),
                                !["extracted_text"] = Num(42)]]}

Event(e, id) == [e |-> e, id |-> id]

\* a get() that leaves the item in the queue
QueueGetPeek(q) == [item |-> Head(q), rest |-> q]

\* asyncio.Queue.get(): the oldest item, and the queue without it
QueueGetNewest(q) == [item |-> q[Len(q)], rest |-> SubSeq(q, 1, Len(q) - 1)]
QueueGet(q) == [item |-> Head(q), rest |-> Tail(q)]

\* one consumer at a time may hold an item
ReadyWhenOtherIdle(c) ==
    /\ pc[c] = "get"
    /\ Queue(c) # <<>>
    /\ \A d \in Consumers \ {c} : pc[d] \notin InFlight \cup {"sleep"}

\* queue.get() of consumer c can return
Ready(c) ==
    /\ pc[c] = "get"
    /\ Queue(c) # <<>>

\* the loop goes on whatever the flag says
WhileAlways == TRUE

\* the test of `while self.running`
WhileRunning == running

\* consumer c is through with its item: the events evs are recorded and the
\* consumer goes to position to
EndItem(c, evs, to) ==
    /\ pc' = [pc EXCEPT ![c] = to]
    /\ trace' = [trace EXCEPT ![c] = @ \o evs]
    /\ cur' = [cur EXCEPT ![c] = NoItem]
    /\ analysis' = [analysis EXCEPT ![c] = NoValue]

\* the event of an item given up: at is the step that raised
Failure(c) == [e |-> "failed", id |-> cur[c].id, at |-> pc[c]]

\* an exception that is not caught ends the consumer task
FailedEndsTask(c) == EndItem(c, <<Failure(c)>>, "exited")

\* the except clause of the consumer loop: the item is given up
Failed(c) == EndItem(c, <<Failure(c)>>, "sleep")

\* set_callback; the applications call it before they start the engine
\* (cli.py:80-92, ui/web_app.py:181-239)
SetCallback ==
    /\ ~on_analysis_callback
    /\ \A c \in Consumers : pc[c] = "off"
    /\ on_analysis_callback' = TRUE
    /\ UNCHANGED <<running, analysis_queue, audio_queue, processed_count,
                   audio_processed_count, pc, cur, analysis, activities, embeddings,
                   trace, n_enq, stopped, pureVars, agentVars>>

\* start(): sets the flag and creates the two consumer tasks
Start ==
    /\ \A c \in Consumers : pc[c] = "off"
    /\ ~stopped.called
    /\ running' = TRUE
    /\ pc' = [c \in Consumers |-> "loop"]
    /\ UNCHANGED <<analysis_queue, audio_queue, processed_count, audio_processed_count,
                   on_analysis_callback, cur, analysis, activities, embeddings, trace,
                   n_enq, stopped, pureVars, agentVars>>

\* stop(): clears the flag; stopped remembers the item each consumer was
\* processing, 0 for none
Stop ==
    /\ running
    /\ running' = FALSE
    /\ stopped' = [called |-> TRUE,
                   inflight |-> [c \in Consumers |->
                                    IF pc[c] \in InFlight THEN cur[c].id ELSE 0]]
    /\ UNCHANGED <<analysis_queue, audio_queue, processed_count, audio_processed_count,
                   on_analysis_callback, pc, cur, analysis, activities, embeddings,
                   trace, n_enq, pureVars, agentVars>>

\* queue_capture(capture_data)
QueueCapture ==
    /\ n_enq["screen"] < MaxItems
    /\ n_enq' = [n_enq EXCEPT !["screen"] = @ + 1]
    /\ analysis_queue' = Append(analysis_queue, Capture(n_enq["screen"] + 1, S_Mail, S_Compose))
    /\ UNCHANGED <<running, audio_queue, processed_count, audio_processed_count,
                   on_analysis_callback, pc, cur, analysis, activities, embeddings,
                   trace, stopped, pureVars, agentVars>>

\* queue_audio(audio_data)
QueueAudio ==
    /\ n_enq["audio"] < MaxItems
    /\ n_enq' = [n_enq EXCEPT !["audio"] = @ + 1]
    /\ audio_queue' = Append(audio_queue, AudioData(n_enq["audio"] + 1))
    /\ UNCHANGED <<running, analysis_queue, processed_count, audio_processed_count,
                   on_analysis_callback, pc, cur, analysis, activities, embeddings,
                   trace, stopped, pureVars, agentVars>>

\* `while self.running:` found true: a dequeue attempt begins
LoopTest(c) ==
    /\ pc[c] = "loop"
    /\ WhileRunning
    /\ pc' = [pc EXCEPT ![c] = "get"]
    /\ UNCHANGED <<running, analysis_queue, audio_queue, processed_count,
                   audio_processed_count, on_analysis_callback, cur, analysis,
                   activities, embeddings, trace, n_enq, stopped, pureVars, agentVars>>

\* `while self.running:` found false: the coroutine ends
Exit(c) ==
    /\ pc[c] = "loop"
    /\ ~WhileRunning
    /\ pc' = [pc EXCEPT ![c] = "exited"]
    /\ UNCHANGED <<running, analysis_queue, audio_queue, processed_count,
                   audio_processed_count, on_analysis_callback, cur, analysis,
                   activities, embeddings, trace, n_enq, stopped, pureVars, agentVars>>

\* queue.get() returns an item
Dequeue(c) ==
    /\ Ready(c)
    /\ LET g == QueueGet(Queue(c))
       IN /\ cur' = [cur EXCEPT ![c] = g.item]
          /\ trace' = [trace EXCEPT ![c] = Append(@, Event("dequeue", g.item.id))]
          /\ IF c = "screen"
             THEN analysis_queue' = g.rest /\ UNCHANGED audio_queue
             ELSE audio_queue' = g.rest /\ UNCHANGED analysis_queue
    /\ pc' = [pc EXCEPT ![c] = "analyze"]
    /\ UNCHANGED <<running, processed_count, audio_processed_count,
                   on_analysis_callback, analysis, activities, embeddings, n_enq,
                   stopped, pureVars, agentVars>>

\* queue.get() awaited with no timeout: on an empty queue it never returns
GetWithoutTimeout(c) == FALSE /\ UNCHANGED vars

\* wait_for times out on an empty queue: `continue`
Timeout(c) ==
    /\ pc[c] = "get"
    /\ Queue(c) = <<>>
    /\ pc' = [pc EXCEPT ![c] = "loop"]
    /\ UNCHANGED <<running, analysis_queue, audio_queue, processed_count,
                   audio_processed_count, on_analysis_callback, cur, analysis,
                   activities, embeddings, trace, n_enq, stopped, pureVars, agentVars>>

\* analysis = await self.analyze_capture(capture_data)
AnalyzeScreen ==
    /\ pc["screen"] = "analyze"
    /\ \E ok \in BOOLEAN, reply \in EngineReplies :
        LET out == analyze_capture(cur["screen"], ok, reply)
        IN IF out.raised
           THEN EndItem("screen", <<Event("analyze", cur["screen"].id),
                                    Failure("screen")>>, "sleep")
           ELSE /\ analysis' = [analysis EXCEPT !["screen"] = out]
                /\ pc' = [pc EXCEPT !["screen"] = "store"]
                /\ trace' = [trace EXCEPT !["screen"] =
                                Append(@, Event("analyze", cur["screen"].id))]
                /\ UNCHANGED cur
    /\ UNCHANGED <<running, analysis_queue, audio_queue, processed_count,
                   audio_processed_count, on_analysis_callback, activities, embeddings,
                   n_enq, stopped, pureVars, agentVars>>

\* what transcribe_audio returns: the text, or its error text; it never raises
S_ErrorTranscribing ==
    <<"[","E","r","r","o","r"," ","t","r","a","n","s","c","r","i","b","i","n","g","]">>
Transcriptions == {S_ErrorTranscribing}

\* transcription = await self.gemini.transcribe_audio(audio_data['filepath'])
TranscribeAudio ==
    /\ pc["audio"] = "analyze"
    /\ \E tr \in Transcriptions :
        analysis' = [analysis EXCEPT !["audio"] = Returned(Str(tr))]
    /\ pc' = [pc EXCEPT !["audio"] = "store"]
    /\ trace' = [trace EXCEPT !["audio"] = Append(@, Event("analyze", cur["audio"].id))]
    /\ UNCHANGED <<running, analysis_queue, audio_queue, processed_count,
                   audio_processed_count, on_analysis_callback, cur, activities,
                   embeddings, n_enq, stopped, pureVars, agentVars>>

\* the row db.store_activity inserts; its id is cursor.lastrowid
Activity(item, type, an) ==
    [id |-> Len(activities) + 1, item |-> item.id, type |-> type, analysis |-> an]

\* store_analysis with _store_embedding not catching: a failed vector write
\* raises after the row has been written
StoreScreenEmbeddingRaises ==
    /\ pc["screen"] = "store"
    /\ \E dbOk \in BOOLEAN, vecOk \in BOOLEAN :
        IF ~dbOk
        THEN Failed("screen") /\ UNCHANGED <<activities, embeddings>>
        ELSE /\ activities' = Append(activities,
                    Activity(cur["screen"], "screen", analysis["screen"].value))
             /\ IF vecOk
                THEN /\ embeddings' = embeddings \cup {Len(activities) + 1}
                     /\ pc' = [pc EXCEPT !["screen"] = "callback"]
                     /\ UNCHANGED <<cur, analysis, trace>>
                ELSE Failed("screen") /\ UNCHANGED embeddings
    /\ UNCHANGED <<running, analysis_queue, audio_queue, processed_count,
                   audio_processed_count, on_analysis_callback, n_enq, stopped,
                   pureVars, agentVars>>

\* store_analysis with the vector write made before the insert: the entry is
\* written under the id the row would get, whether or not the insert succeeds
StoreScreenEmbeddingFirst ==
    /\ pc["screen"] = "store"
    /\ \E dbOk \in BOOLEAN, vecOk \in BOOLEAN :
        /\ embeddings' = IF vecOk THEN embeddings \cup {Len(activities) + 1}
                                  ELSE embeddings
        /\ IF ~dbOk
           THEN Failed("screen") /\ UNCHANGED activities
           ELSE /\ activities' = Append(activities,
                       Activity(cur["screen"], "screen", analysis["screen"].value))
                /\ pc' = [pc EXCEPT !["screen"] = "callback"]
                /\ UNCHANGED <<cur, analysis, trace>>
    /\ UNCHANGED <<running, analysis_queue, audio_queue, processed_count,
                   audio_processed_count, on_analysis_callback, n_enq, stopped,
                   pureVars, agentVars>>

\* await self.store_analysis(capture_data, analysis): the insert raises, or
\* the row is written and the embedding is added to the vector index unless
\* that fails, which _store_embedding swallows
StoreScreen ==
    /\ pc["screen"] = "store"
    /\ \E dbOk \in BOOLEAN, vecOk \in BOOLEAN :
        IF ~dbOk
        THEN Failed("screen") /\ UNCHANGED <<activities, embeddings>>
        ELSE /\ activities' = Append(activities,
                    Activity(cur["screen"], "screen", analysis["screen"].value))
             /\ embeddings' = IF vecOk THEN embeddings \cup {Len(activities) + 1}
                                       ELSE embeddings
             /\ pc' = [pc EXCEPT !["screen"] = "callback"]
             /\ UNCHANGED <<cur, analysis, trace>>
    /\ UNCHANGED <<running, analysis_queue, audio_queue, processed_count,
                   audio_processed_count, on_analysis_callback, n_enq, stopped,
                   pureVars, agentVars>>

\* await self.db.store_activity(...) of the audio consumer: no embedding
StoreAudio ==
    /\ pc["audio"] = "store"
    /\ \E dbOk \in BOOLEAN :
        IF ~dbOk
        THEN Failed("audio") /\ UNCHANGED activities
        ELSE /\ activities' = Append(activities,
                    Activity(cur["audio"], "audio",
                             [EmptyDict EXCEPT !["activity"] = Str(S_Listening),
                                               !["transcription"] = analysis["audio"].value]))
             /\ pc' = [pc EXCEPT !["audio"] = "callback"]
             /\ UNCHANGED <<cur, analysis, trace>>
    /\ UNCHANGED <<running, analysis_queue, audio_queue, processed_count,
                   audio_processed_count, on_analysis_callback, embeddings, n_enq,
                   stopped, pureVars, agentVars>>

\* task_done() and the counter of consumer c
Counted(c) ==
    IF c = "screen"
    THEN processed_count' = processed_count + 1 /\ UNCHANGED audio_processed_count
    ELSE audio_processed_count' = audio_processed_count + 1 /\ UNCHANGED processed_count

\* the callback awaited outside the try: its exception ends the consumer task
CallbackUncaught(c) ==
    /\ pc[c] = "callback"
    /\ IF on_analysis_callback
       THEN \E raises \in BOOLEAN :
            IF raises
            THEN /\ EndItem(c, <<Event("callback", cur[c].id), Failure(c)>>, "exited")
                 /\ UNCHANGED <<processed_count, audio_processed_count>>
            ELSE /\ EndItem(c, <<Event("callback", cur[c].id),
                                 Event("done", cur[c].id)>>, "loop")
                 /\ Counted(c)
       ELSE /\ EndItem(c, <<Event("done", cur[c].id)>>, "loop")
            /\ Counted(c)
    /\ UNCHANGED <<running, analysis_queue, audio_queue, on_analysis_callback,
                   activities, embeddings, n_enq, stopped, pureVars, agentVars>>

\* the callback block, task_done() and the counter: with a callback set it
\* is awaited once and returns or raises
Callback(c) ==
    /\ pc[c] = "callback"
    /\ IF on_analysis_callback
       THEN \E raises \in BOOLEAN :
            IF raises
            THEN /\ EndItem(c, <<Event("callback", cur[c].id),
                                 Failure(c)>>, "sleep")
                 /\ UNCHANGED <<processed_count, audio_processed_count>>
            ELSE /\ EndItem(c, <<Event("callback", cur[c].id),
                                 Event("done", cur[c].id)>>, "loop")
                 /\ Counted(c)
       ELSE /\ EndItem(c, <<Event("done", cur[c].id)>>, "loop")
            /\ Counted(c)
    /\ UNCHANGED <<running, analysis_queue, audio_queue, on_analysis_callback,
                   activities, embeddings, n_enq, stopped, pureVars, agentVars>>

\* asyncio.sleep(1) of the except clause returns
Sleep(c) ==
    /\ pc[c] = "sleep"
    /\ pc' = [pc EXCEPT ![c] = "loop"]
    /\ UNCHANGED <<running, analysis_queue, audio_queue, processed_count,
                   audio_processed_count, on_analysis_callback, cur, analysis,
                   activities, embeddings, trace, n_enq, stopped, pureVars, agentVars>>

\* one step of consumer c
Step(c) ==
    \/ LoopTest(c)
    \/ Exit(c)
    \/ Dequeue(c)
    \/ Timeout(c)
    \/ c = "screen" /\ AnalyzeScreen
    \/ c = "screen" /\ StoreScreen
    \/ c = "audio" /\ TranscribeAudio
    \/ c = "audio" /\ StoreAudio
    \/ Callback(c)
    \/ Sleep(c)

Next ==
    \/ SetCallback
    \/ Start
    \/ Stop
    \/ QueueCapture
    \/ QueueAudio
    \/ \E c \in Consumers : Step(c)

Init == InitPure /\ InitAgent /\ InitEngine

Spec == Init /\ [][Next]_vars

(***************************************************************************)
(* Claims about the consumers of the engine                                *)
(***************************************************************************)
IsDequeue(x) == x.e = "dequeue"
IsEnd(x) == x.e \in {"done", "failed"}

\* the ids of the items consumer c has dequeued, in order
DequeuedIds(c) ==
    LET d == SelectSeq(trace[c], IsDequeue) IN [i \in DOMAIN d |-> d[i].id]

\* C8: within one modality the items are dequeued in the order they were
\* enqueued (item k of a queue is the k-th one put into it), and an item is
\* dequeued only after the item before it has ended, done or failed; all
\* events of an item lie between its dequeue and its end.
C8_FifoNoOverlap ==
    \A c \in Consumers :
        /\ \A k \in DOMAIN DequeuedIds(c) : DequeuedIds(c)[k] = k
        /\ \A i \in DOMAIN trace[c] :
            IF IsDequeue(trace[c][i])
            THEN i > 1 => IsEnd(trace[c][i - 1])
            ELSE /\ i > 1
                 /\ ~IsEnd(trace[c][i - 1])
                 /\ trace[c][i - 1].id = trace[c][i].id
        /\ pc[c] \in InFlight <=>
                (trace[c] # <<>> /\ ~IsEnd(trace[c][Len(trace[c])]))
        /\ pc[c] \in InFlight => cur[c].id = trace[c][Len(trace[c])].id

\* a consumer has dequeued its second item
C8_Witness ==
    \E c \in Consumers :
        /\ Len(DequeuedIds(c)) = 2
        /\ Len(SelectSeq(trace[c], IsEnd)) >= 1

\* the position, item and history of consumer c and its queue do not change
ConsumerUntouched(c) ==
    /\ pc'[c] = pc[c]
    /\ cur'[c] = cur[c]
    /\ analysis'[c] = analysis[c]
    /\ trace'[c] = trace[c]
    /\ c = "screen" => analysis_queue' = analysis_queue
    /\ c = "audio" => audio_queue' = audio_queue

C10_StopCooperative ==
    /\ [][stopped.called => \A c \in Consumers : pc'[c] = "get" => pc[c] = "get"]_vars
    /\ [][(running /\ ~running') =>
            /\ \A c \in Consumers : ConsumerUntouched(c)
            /\ activities' = activities]_vars
    /\ [](stopped.called =>
            \A c \in Consumers :
                /\ pc[c] \in InFlight => ENABLED Step(c)
                /\ stopped.inflight[c] # 0 =>
                    \/ pc[c] \in InFlight /\ cur[c].id = stopped.inflight[c]
                    \/ \E i \in DOMAIN trace[c] :
                        IsEnd(trace[c][i]) /\ trace[c][i].id = stopped.inflight[c])

\* an item that was being processed when stop() was called has been stored,
\* handed to the callback and counted
C10_Witness ==
    /\ stopped.called
    /\ \E c \in Consumers :
        /\ stopped.inflight[c] # 0
        /\ \E i \in DOMAIN trace[c] : trace[c][i] = Event("done", stopped.inflight[c])
        /\ \E i \in DOMAIN activities : activities[i].item = stopped.inflight[c]

(***************************************************************************)
(* FairSpec: the engine under a scheduler that lets every consumer task    *)
(* that can take a step take one: the event loop resumes a task whose      *)
(* await has returned, wait_for returns after its timeout at the latest,   *)
(* and every inference and storage call returns.                           *)
(***************************************************************************)
FairSpec == Spec /\ \A c \in Consumers : WF_vars(Step(c))

\* `await asyncio.gather(*tasks)` of start() returns: both tasks have ended
StartReturned == \A c \in Consumers : pc[c] = "exited"

\* C11: once stop() has been called, both consumer loops end and start()
\* returns, whatever the queues hold and whether the items in flight end as
\* done or failed.
C11_ShutdownLiveness == stopped.called ~> StartReturned

\* start() has returned after a stop() that found an item in flight and a
\* queue that was never emptied
C11_Witness ==
    /\ stopped.called
    /\ StartReturned
    /\ \E c \in Consumers : stopped.inflight[c] # 0
    /\ \E c \in Consumers : Queue(c) # <<>>

\* item k of consumer c has ended, done or failed
Ended(c, k) == \E i \in DOMAIN trace[c] : IsEnd(trace[c][i]) /\ trace[c][i].id = k

\* item k of consumer c was given up in the step at
FailedAt(c, k, at) ==
    \E i \in DOMAIN trace[c] : trace[c][i] = [e |-> "failed", id |-> k, at |-> at]

\* item k of consumer c is nowhere in the pipeline any more and has left
\* no activity record
Dropped(c, k) ==
    /\ \A i \in DOMAIN Queue(c) : Queue(c)[i].id # k
    /\ cur[c].id # k
    /\ \A i \in DOMAIN activities : ~(activities[i].type = c /\ activities[i].item = k)
    /\ Len(SelectSeq(DequeuedIds(c), LAMBDA x : x = k)) = 1

\* some enqueued item has not ended yet
Pending == \E c \in Consumers : \E k \in 1..n_enq[c] : ~Ended(c, k)

\* C12: an item whose primary record could not be written is dropped: it
\* is not in its queue again, is not retried and has no record; the consumer
\* task does not end because of it (it ends only after stop()), and while
\* the engine runs every item enqueued, also one behind a failed item, is
\* dequeued and processed to its end.
C12_StorageFailureDropsOneItem ==
    /\ [](\A c \in Consumers :
            /\ \A k \in 1..n_enq[c] : FailedAt(c, k, "store") => Dropped(c, k)
            /\ pc[c] = "exited" => stopped.called
            /\ pc[c] = "sleep" => ENABLED Sleep(c))
    /\ (running /\ Pending) ~> (stopped.called \/ ~Pending)

\* the first screen item failed in storage and the second one was processed
C12_Witness ==
    /\ running
    /\ FailedAt("screen", 1, "store")
    /\ \E i \in DOMAIN trace["screen"] : trace["screen"][i] = Event("done", 2)
    /\ \E i \in DOMAIN activities :
        activities[i].type = "screen" /\ activities[i].item = 2

\* the callback was awaited for item k of consumer c
CallbackInvoked(c, k) == \E i \in DOMAIN trace[c] : trace[c][i] = Event("callback", k)

\* the row of a screen item whose embedding is not in the vector index: the
\* embedding of a screen item is never empty, so its vector write failed
EmbeddingWriteFailed(a) == a.type = "screen" /\ a.id \notin embeddings

\* C13: when the vector write of an item fails, its activity record is
\* written and stays, store_analysis returns normally (the item does not
\* fail in the store step), and a registered callback is invoked for the
\* item.
C13_EmbeddingFailureIsolated ==
    /\ [](\A i \in DOMAIN activities :
            EmbeddingWriteFailed(activities[i]) =>
                /\ ~FailedAt("screen", activities[i].item, "store")
                /\ \/ pc["screen"] = "callback" /\ cur["screen"].id = activities[i].item
                   \/ /\ Ended("screen", activities[i].item)
                      /\ on_analysis_callback =>
                            CallbackInvoked("screen", activities[i].item))
    /\ [][/\ Len(activities') >= Len(activities)
          /\ \A i \in DOMAIN activities : activities'[i] = activities[i]]_vars

\* the vector write of a stored item failed and its callback was invoked
C13_Witness ==
    \E i \in DOMAIN activities :
        /\ EmbeddingWriteFailed(activities[i])
        /\ CallbackInvoked("screen", activities[i].item)
        /\ \E j \in DOMAIN trace["screen"] :
            trace["screen"][j] = Event("done", activities[i].item)

\* the callback raised for some item
SomeCallbackFailed == \E c \in Consumers : \E k \in 1..n_enq[c] : FailedAt(c, k, "callback")

\* C14: when the callback raises for an item, the record written for the
\* item is kept, the consumer task does not end (it ends only after
\* stop()) and goes on from its sleep, and while the engine runs the items
\* still pending are processed to their end.
C14_CallbackExceptionContained ==
    /\ [](\A c \in Consumers : \A k \in 1..n_enq[c] :
            FailedAt(c, k, "callback") =>
                /\ \E i \in DOMAIN activities :
                        activities[i].type = c /\ activities[i].item = k
                /\ pc[c] = "exited" => stopped.called
                /\ pc[c] = "sleep" => ENABLED Sleep(c)
                /\ (pc[c] = "loop" /\ running) => ENABLED LoopTest(c))
    /\ (running /\ SomeCallbackFailed /\ Pending) ~> (stopped.called \/ ~Pending)

\* the callback raised for the first audio item, and the second audio item
\* was processed
C14_Witness ==
    /\ running
    /\ FailedAt("audio", 1, "callback")
    /\ \E i \in DOMAIN activities : activities[i].type = "audio" /\ activities[i].item = 1
    /\ \E i \in DOMAIN trace["audio"] : trace["audio"][i] = Event("done", 2)

\* how often event e was recorded for item k of consumer c
Times(c, e, k) ==
    Cardinality({i \in DOMAIN trace[c] : trace[c][i].e = e /\ trace[c][i].id = k})

\* the activity records written for item k of consumer c
RecordsOf(c, k) ==
    {i \in DOMAIN activities : activities[i].type = c /\ activities[i].item = k}

\* C15: every item ever enqueued has been dequeued at most once, has had at
\* most one inference attempt, at most one activity record and at most one
\* callback invocation, and has ended at most once; nothing else is ever
\* dequeued.
C15_AtMostOnce ==
    \A c \in Consumers :
        /\ \A i \in DOMAIN trace[c] : trace[c][i].id \in 1..n_enq[c]
        /\ \A k \in 1..n_enq[c] :
            /\ Times(c, "dequeue", k) <= 1
            /\ Times(c, "analyze", k) <= 1
            /\ Times(c, "callback", k) <= 1
            /\ Times(c, "done", k) + Times(c, "failed", k) <= 1
            /\ Cardinality(RecordsOf(c, k)) <= 1
            /\ Times(c, "analyze", k) <= Times(c, "dequeue", k)
            /\ Cardinality(RecordsOf(c, k)) <= Times(c, "analyze", k)
            /\ Times(c, "callback", k) <= Cardinality(RecordsOf(c, k))

\* after a stop, the first screen item has failed in its inference attempt
\* and the second has been analysed, stored and handed to the callback once
C15_Witness ==
    /\ stopped.called
    /\ FailedAt("screen", 1, "analyze")
    /\ Times("screen", "analyze", 1) = 1
    /\ Times("screen", "dequeue", 2) = 1
    /\ Times("screen", "analyze", 2) = 1
    /\ Times("screen", "callback", 2) = 1
    /\ Cardinality(RecordsOf("screen", 2)) = 1

(***************************************************************************)
(* core/query_engine.py: classify_query                                    *)
(***************************************************************************)
\* s[i..] begins with lit
StartsAt(s, i, lit) ==
    /\ i >= 1
    /\ i + Len(lit) - 1 <= Len(s)
    /\ SubSeq(s, i, i + Len(lit) - 1) = lit

IsLetter(c) == \E i \in DOMAIN UpperCase : UpperCase[i] = c \/ LowerCase[i] = c

\* the index after the longest run of digits (of letters) of s that begins at i
DigitsEnd(s, i) ==
    CHOOSE j \in i..(Len(s) + 1) :
        /\ \A k \in i..(j - 1) : s[k] \in Digits
        /\ j = Len(s) + 1 \/ s[j] \notin Digits
LettersEnd(s, i) ==
    CHOOSE j \in i..(Len(s) + 1) :
        /\ \A k \in i..(j - 1) : IsLetter(s[k])
        /\ j = Len(s) + 1 \/ ~IsLetter(s[j])

SetMin(S) == CHOOSE x \in S : \A y \in S : x <= y

\* temporal_patterns, in order; kind last_n is r'last (\d+) hours?' and kind
\* n_ago is r'(\d+) minutes? ago'
temporal_patterns ==
    << [kind |-> "lit", text |-> <<"t","o","d","a","y">>, time_type |-> "today"],
       [kind |-> "lit", text |-> <<"y","e","s","t","e","r","d","a","y">>, time_type |-> "yesterday"],
       [kind |-> "lit", text |-> <<"t","h","i","s"," ","m","o","r","n","i","n","g">>, time_type |-> "this_morning"],
       [kind |-> "lit", text |-> <<"t","h","i","s"," ","a","f","t","e","r","n","o","o","n">>, time_type |-> "this_afternoon"],
       [kind |-> "lit", text |-> <<"t","h","i","s"," ","h","o","u","r">>, time_type |-> "this_hour"],
       [kind |-> "lit", text |-> <<"l","a","s","t"," ","h","o","u","r">>, time_type |-> "last_hour"],
       [kind |-> "last_n", text |-> <<>>, time_type |-> "last_n_hours"],
       [kind |-> "lit", text |-> <<"l","a","s","t"," ","w","e","e","k">>, time_type |-> "last_week"],
       [kind |-> "lit", text |-> <<"t","h","i","s"," ","w","e","e","k">>, time_type |-> "this_week"],
       [kind |-> "n_ago", text |-> <<>>, time_type |-> "minutes_ago"],
       [kind |-> "lit", text |-> <<"j","u","s","t"," ","n","o","w">>, time_type |-> "just_now"],
       [kind |-> "lit", text |-> <<"r","e","c","e","n","t","l","y">>, time_type |-> "recent"] >>

\* the positions at which pattern p matches in s
TemporalMatches(p, s) ==
    CASE p.kind = "lit" -> {i \in 1..Len(s) : StartsAt(s, i, p.text)}
      [] p.kind = "last_n" ->
            {i \in 1..Len(s) :
                /\ StartsAt(s, i, <<"l","a","s","t"," ">>)
                /\ DigitsEnd(s, i + 5) > i + 5
                /\ StartsAt(s, DigitsEnd(s, i + 5), <<" ","h","o","u","r">>)}
      [] p.kind = "n_ago" ->
            {i \in 1..Len(s) :
                /\ s[i] \in Digits
                /\ StartsAt(s, DigitsEnd(s, i), <<" ","m","i","n","u","t","e">>)
                /\ \/ StartsAt(s, DigitsEnd(s, i) + 7, <<" ","a","g","o">>)
                   \/ StartsAt(s, DigitsEnd(s, i) + 7, <<"s"," ","a","g","o">>)}

\* match.group(1) of the leftmost match of p in s
TemporalGroup(p, s) ==
    LET i == SetMin(TemporalMatches(p, s))
    IN IF p.kind = "last_n" THEN SubSeq(s, i + 5, DigitsEnd(s, i + 5) - 1)
       ELSE SubSeq(s, i, DigitsEnd(s, i) - 1)

\* entity_patterns, in order: each is the word, a space, and ([a-zA-Z]+)
entity_patterns == << <<"a","b","o","u","t"," ">>, <<"w","i","t","h"," ">>, <<"f","r","o","m"," ">>, <<"i","n"," ">> >>
EntityMatches(w, s) ==
    {i \in 1..Len(s) :
        /\ StartsAt(s, i, w)
        /\ i + Len(w) <= Len(s)
        /\ IsLetter(s[i + Len(w)])}
EntityGroup(w, s) ==
    LET i == SetMin(EntityMatches(w, s))
    IN SubSeq(s, i + Len(w), LettersEnd(s, i + Len(w)) - 1)

PersonWords == << <<"w","h","o">>, <<"p","e","r","s","o","n">>, <<"e","m","a","i","l"," ","f","r","o","m">> >>
system_stats_terms ==
    << <<"a","c","t","i","v","i","t","y"," ","s","t","a","t","s">>,
       <<"s","y","s","t","e","m"," ","s","t","a","t","s">>,
       <<"h","o","w"," ","m","a","n","y"," ","m","e","m","o","r","i","e","s">>,
       <<"t","o","t","a","l"," ","e","v","e","n","t","s">>,
       <<"d","a","t","a","b","a","s","e"," ","s","i","z","e">> >>

\* the (query_type, params) pair classify_query returns; params holds
\* time_type and value, or name, as the type has them
QueryClass(type, fields) == [type |-> type, params |-> fields]

\* the first i in 1..Len(ps) whose pattern matches, 0 if none
FirstMatching(ps, s, M(_, _)) ==
    IF \E i \in DOMAIN ps : M(ps[i], s) # {}
    THEN SetMin({i \in DOMAIN ps : M(ps[i], s) # {}})
    ELSE 0

\* classify_query with the stats terms tested before the temporal patterns
classify_query_stats_first(query) ==
    LET t == FirstMatching(temporal_patterns, query, TemporalMatches)
        e == FirstMatching(entity_patterns, query, EntityMatches)
    IN IF AnyIn(system_stats_terms, query) THEN QueryClass("stats", <<>>)
       ELSE IF t # 0
       THEN IF temporal_patterns[t].kind = "lit"
            THEN QueryClass("temporal", [time_type |-> temporal_patterns[t].time_type])
            ELSE QueryClass("temporal",
                    [time_type |-> temporal_patterns[t].time_type,
                     value |-> TemporalGroup(temporal_patterns[t], query)])
       ELSE IF AnyIn(PersonWords, query) /\ e # 0
            THEN QueryClass("entity", [name |-> EntityGroup(entity_patterns[e], query)])
       ELSE QueryClass("semantic", <<>>)

classify_query(query) ==
    LET t == FirstMatching(temporal_patterns, query, TemporalMatches)
        e == FirstMatching(entity_patterns, query, EntityMatches)
    IN IF t # 0
       THEN IF temporal_patterns[t].kind = "lit"
            THEN QueryClass("temporal", [time_type |-> temporal_patterns[t].time_type])
            ELSE QueryClass("temporal",
                    [time_type |-> temporal_patterns[t].time_type,
                     value |-> TemporalGroup(temporal_patterns[t], query)])
       ELSE IF AnyIn(PersonWords, query) /\ e # 0
            THEN QueryClass("entity", [name |-> EntityGroup(entity_patterns[e], query)])
       ELSE IF AnyIn(system_stats_terms, query) THEN QueryClass("stats", <<>>)
       ELSE QueryClass("semantic", <<>>)

(***************************************************************************)
(* core/query_engine.py: extract_time_range. A datetime is a record of the *)
(* day (its proleptic ordinal), hour, minute, second and microsecond; a    *)
(* timedelta of whole seconds leaves the microsecond as it is.             *)
(***************************************************************************)
DateTime(d, h, m, sec, us) ==
    [day |-> d, hour |-> h, minute |-> m, second |-> sec, microsecond |-> us]

\* seconds since the start of day 0, and back
ToSeconds(dt) == dt.day * 86400 + dt.hour * 3600 + dt.minute * 60 + dt.second
FromSeconds(n, us) ==
    DateTime(n \div 86400, (n % 86400) \div 3600, (n % 3600) \div 60, n % 60, us)

\* a subtraction that wraps around midnight without leaving the day
MinusWithinDay(dt, n) ==
    FromSeconds(dt.day * 86400 + ((ToSeconds(dt) - n) % 86400), dt.microsecond)

\* dt - timedelta(seconds=n)
Minus(dt, n) == FromSeconds(ToSeconds(dt) - n, dt.microsecond)

\* dt.replace(hour=0, minute=0, second=0, microsecond=0)
Midnight(dt) == DateTime(dt.day, 0, 0, 0, 0)

\* datetime.weekday(): Monday is 0, and day 1 is a Monday
weekday(dt) == (dt.day - 1) % 7

\* int(value) for a string of digits
DigitValue(c) ==
    CASE c = "0" -> 0 [] c = "1" -> 1 [] c = "2" -> 2 [] c = "3" -> 3 [] c = "4" -> 4
      [] c = "5" -> 5 [] c = "6" -> 6 [] c = "7" -> 7 [] c = "8" -> 8 [] c = "9" -> 9
RECURSIVE int(_)
int(value) ==
    IF value = <<>> THEN 0
    ELSE 10 * int(SubSeq(value, 1, Len(value) - 1)) + DigitValue(value[Len(value)])

TimeRange(start, end) == [start |-> start, end |-> end]

\* params.get('value') is truthy
HasValue(params) == "value" \in DOMAIN params /\ params["value"] # <<>>

extract_time_range(params, t) ==
    LET time_type == IF "time_type" \in DOMAIN params THEN params["time_type"] ELSE "today"
    IN CASE time_type = "today" -> TimeRange(Midnight(t), t)
         [] time_type = "yesterday" ->
                LET yesterday == Minus(t, 86400)
                IN TimeRange(Midnight(yesterday),
                             [yesterday EXCEPT !.hour = 23, !.minute = 59, !.second = 59])
         [] time_type = "this_morning" ->
                TimeRange(Midnight(t), DateTime(t.day, 12, 0, 0, 0))
         [] time_type = "this_afternoon" -> TimeRange(DateTime(t.day, 12, 0, 0, 0), t)
         [] time_type = "this_hour" -> TimeRange(DateTime(t.day, t.hour, 0, 0, 0), t)
         [] time_type = "last_hour" -> TimeRange(Minus(t, 3600), t)
         [] time_type = "last_n_hours" /\ HasValue(params) ->
                TimeRange(Minus(t, 3600 * int(params["value"])), t)
         [] time_type = "last_week" -> TimeRange(Minus(t, 7 * 86400), t)
         [] time_type = "this_week" -> TimeRange(Midnight(Minus(t, 86400 * weekday(t))), t)
         [] time_type = "minutes_ago" /\ HasValue(params) ->
                TimeRange(Minus(t, 60 * int(params["value"])), t)
         [] time_type = "just_now" -> TimeRange(Minus(t, 300), t)
         [] time_type = "recent" -> TimeRange(Minus(t, 7200), t)
         [] OTHER -> TimeRange(Midnight(t), t)

(***************************************************************************)
(* SpecQuery: one call of QueryEngine.process_query, up to the time range  *)
(* temporal_search resolves.                                               *)
(***************************************************************************)
\* str.strip()
Strip(s) ==
    IF \A i \in DOMAIN s : IsSpace(s[i]) THEN <<>>
    ELSE LET a == SetMin({i \in DOMAIN s : ~IsSpace(s[i])})
             b == CHOOSE i \in DOMAIN s :
                     ~IsSpace(s[i]) /\ \A j \in (i + 1)..Len(s) : IsSpace(s[j])
         IN SubSeq(s, a, b)

\* the phrases the user's questions are put together from
Fragments ==
    { <<"w","h","a","t"," ","d","i","d"," ","I"," ","d","o"," ","y","e","s","t","e","r","d","a","y">>,
      <<"h","o","w"," ","m","a","n","y"," ","m","e","m","o","r","i","e","s"," ","d","o"," ","I"," ","h","a","v","e">>,
      <<"t","o","d","a","y">>,
      <<"l","a","s","t"," ","3"," ","h","o","u","r","s">>,
      <<"l","a","s","t"," ","h","o","u","r">>,
      <<"l","a","s","t"," ","2","5"," ","h","o","u","r">>,
      <<"1","2"," ","m","i","n","u","t","e","s"," ","a","g","o">>,
      <<"w","h","o">>,
      <<"e","m","a","i","l"," ","f","r","o","m"," ","B","o","b">>,
      <<"a","b","o","u","t"," ","a","l","i","c","e">>,
      <<"a","c","t","i","v","i","t","y"," ","s","t","a","t","s">>,
      <<"b","u","d","g","e","t">>,
      <<"r","e","c","e","n","t","l","y">>,
      <<" ","t","h","i","s"," ","w","e","e","k"," ">>,
      <<"t","h","i","s"," ","a","f","t","e","r","n","o","o","n">>,
      <<"t","h","i","s"," ","m","o","r","n","i","n","g">>,
      <<"t","h","i","s"," ","h","o","u","r">>,
      <<"l","a","s","t"," ","w","e","e","k">>,
      <<"j","u","s","t"," ","n","o","w">> }

MaxFragments == 2

RECURSIVE Sentences(_)
Sentences(n) ==
    IF n = 1 THEN Fragments
    ELSE Sentences(n - 1) \cup
         {s \o <<" ">> \o f : s \in Sentences(n - 1), f \in Fragments}

Queries == Sentences(MaxFragments)

\* the values datetime.now() takes
Nows ==
    {DateTime(d, h, ms[1], ms[2], us) :
        d \in {8, 10}, h \in {0, 2, 23}, ms \in {<<0, 0>>, <<30, 15>>, <<59, 59>>},
        us \in {0, 250000}}

InitQuery ==
    /\ arg \in {[query |-> q, now |-> t] : q \in Queries, t \in Nows}
    /\ ret = NoCall
    /\ InitAgent
    /\ InitEngine

\* process_query: normalise and classify
ClassifyQuery ==
    /\ ~ret.called
    /\ ret' = [called |-> TRUE, step |-> "classified",
               class |-> classify_query(Strip(Lower(arg.query)))]
    /\ UNCHANGED <<arg, agentVars, engineVars>>

\* temporal_search: resolve the time range of a temporal query
TemporalSearch ==
    /\ ret.called
    /\ ret.step = "classified"
    /\ ret.class.type = "temporal"
    /\ ret' = [ret EXCEPT !.step = "resolved"] @@
              [range |-> extract_time_range(ret.class.params, arg.now)]
    /\ UNCHANGED <<arg, agentVars, engineVars>>

NextQuery == ClassifyQuery \/ TemporalSearch

SpecQuery == InitQuery /\ [][NextQuery]_vars

(***************************************************************************)
(* C16: the precedence of the buckets                                      *)
(***************************************************************************)
\* the runs of digits that occur in q
DigitRuns(q) ==
    {d \in {SubSeq(q, i, j) : i \in 1..Len(q), j \in 1..Len(q)} :
        d # <<>> /\ \A k \in DOMAIN d : d[k] \in Digits}

\* q holds a temporal phrase, a person-indicating word, an entity phrase,
\* a stats phrase
HasTemporalPhrase(q) ==
    \/ \E i \in DOMAIN temporal_patterns :
          temporal_patterns[i].kind = "lit" /\ Contains(temporal_patterns[i].text, q)
    \/ \E d \in DigitRuns(q) :
          \/ Contains(<<"l","a","s","t"," ">> \o d \o <<" ","h","o","u","r">>, q)
          \/ Contains(d \o <<" ","m","i","n","u","t","e"," ","a","g","o">>, q)
          \/ Contains(d \o <<" ","m","i","n","u","t","e","s"," ","a","g","o">>, q)
HasPersonWord(q) == \E i \in DOMAIN PersonWords : Contains(PersonWords[i], q)
HasEntityPhrase(q) ==
    \E i \in DOMAIN entity_patterns, k \in DOMAIN LowerCase :
        \/ Contains(entity_patterns[i] \o <<LowerCase[k]>>, q)
        \/ Contains(entity_patterns[i] \o <<UpperCase[k]>>, q)
HasStatsPhrase(q) == \E i \in DOMAIN system_stats_terms : Contains(system_stats_terms[i], q)

\* the bucket the precedence temporal, entity, stats, semantic gives q
Bucket(q) ==
    IF HasTemporalPhrase(q) THEN "temporal"
    ELSE IF HasPersonWord(q) /\ HasEntityPhrase(q) THEN "entity"
    ELSE IF HasStatsPhrase(q) THEN "stats"
    ELSE "semantic"

\* C16: the query is put into the one bucket that the precedence temporal,
\* then entity (which needs a person-indicating word), then stats, else
\* semantic gives it, so a query with a temporal phrase is temporal whatever
\* else it holds; "what did I do yesterday" is temporal with time type
\* yesterday and "how many memories do I have" is stats.
C16_BucketPrecedence ==
    ret.called =>
        LET q == Strip(Lower(arg.query))
        IN /\ ret.class.type = Bucket(q)
           /\ ret.class.type = "entity" => HasPersonWord(q)
           /\ (HasTemporalPhrase(q) /\ HasStatsPhrase(q)) => ret.class.type = "temporal"
           /\ arg.query = <<"w","h","a","t"," ","d","i","d"," ","I"," ","d","o"," ","y","e","s","t","e","r","d","a","y">> =>
                 /\ ret.class.type = "temporal"
                 /\ ret.class.params = [time_type |-> "yesterday"]
           /\ arg.query = <<"h","o","w"," ","m","a","n","y"," ","m","e","m","o","r","i","e","s"," ","d","o"," ","I"," ","h","a","v","e">> => ret.class.type = "stats"

\* a question with both a temporal and a stats phrase was classified temporal
C16_Witness ==
    /\ ret.called
    /\ HasTemporalPhrase(Lower(arg.query))
    /\ HasStatsPhrase(Lower(arg.query))
    /\ ret.class.type = "temporal"

(***************************************************************************)
(* C17: the resolved time ranges                                           *)
(***************************************************************************)
\* d is a date and time of the calendar
WellFormed(d) ==
    /\ d.hour \in 0..23
    /\ d.minute \in 0..59
    /\ d.second \in 0..59
    /\ d.microsecond \in 0..999999

\* C17: whatever the current time, "yesterday" resolves to the range from
\* 00:00:00 to 23:59:59 of the day before today (the end keeps the
\* microsecond of now), and "last N hours" to the range that starts exactly
\* N hours before now and ends at now.
C17_TemporalResolution ==
    (ret.called /\ ret.step = "resolved") =>
        LET p == ret.class.params
            t == arg.now
            r == ret.range
        IN /\ WellFormed(r.start) /\ WellFormed(r.end)
           /\ p.time_type = "yesterday" =>
                 /\ r.start = DateTime(t.day - 1, 0, 0, 0, 0)
                 /\ r.end = DateTime(t.day - 1, 23, 59, 59, t.microsecond)
           /\ p.time_type = "last_n_hours" =>
                 /\ r.end = t
                 /\ r.start.microsecond = t.microsecond
                 /\ ToSeconds(t) - ToSeconds(r.start) = 3600 * int(p.value)
                 /\ arg.query = <<"l","a","s","t"," ","3"," ","h","o","u","r","s">> => ToSeconds(t) - ToSeconds(r.start) = 10800
                 /\ arg.query = <<"l","a","s","t"," ","2","5"," ","h","o","u","r">> => ToSeconds(t) - ToSeconds(r.start) = 90000

\* "yesterday" was resolved a little after midnight, at a time that is not
\* a whole second
C17_Witness ==
    /\ ret.called
    /\ ret.step = "resolved"
    /\ ret.class.params.time_type = "yesterday"
    /\ arg.now.hour = 0
    /\ arg.now.microsecond # 0
    /\ ret.range.end.day = arg.now.day - 1

(***************************************************************************)
(* services/database.py: the activities table as the query engine reads    *)
(* it. A row is [id, timestamp, window_title, analysis]; timestamps are    *)
(* ISO strings, whose order is the order of the instants, modelled as      *)
(* integers. A db is [rows, tiebreak]: how rows of one timestamp are       *)
(* ordered is left to the SQL engine.                                      *)
(***************************************************************************)
Row(i, ts, title, text) ==
    [id |-> i, timestamp |-> ts, window_title |-> title, analysis |-> text]

\* ORDER BY timestamp DESC
Before(x, y, tiebreak) ==
    \/ x.timestamp > y.timestamp
    \/ /\ x.timestamp = y.timestamp
       /\ IF tiebreak = "asc" THEN x.id < y.id ELSE x.id > y.id
RECURSIVE OrderByTimestampDesc(_, _)
OrderByTimestampDesc(S, tiebreak) ==
    IF S = {} THEN <<>>
    ELSE LET r == CHOOSE x \in S : \A y \in S \ {x} : Before(x, y, tiebreak)
         IN <<r>> \o OrderByTimestampDesc(S \ {r}, tiebreak)

\* LIMIT ?
Limit(rows, n) == SubSeq(rows, 1, IF Len(rows) < n THEN Len(rows) ELSE n)

\* column LIKE '%query%', which ignores the case of ASCII letters; the
\* queries of the model hold no % and no _
Like(query, column) == Contains(Lower(query), Lower(column))

search_activities(db, query, limit) ==
    Limit(OrderByTimestampDesc(
              {r \in db.rows :
                  query # <<>> => Like(query, r.window_title) \/ Like(query, r.analysis)},
              db.tiebreak),
          limit)

get_recent_activities_oldest_first(db, limit) ==
    LET all == OrderByTimestampDesc(db.rows, db.tiebreak)
    IN Limit([i \in DOMAIN all |-> all[Len(all) + 1 - i]], limit)

get_recent_activities(db, limit) ==
    Limit(OrderByTimestampDesc(db.rows, db.tiebreak), limit)

(***************************************************************************)
(* core/query_engine.py: semantic_search                                   *)
(***************************************************************************)
\* str.isdigit() and str(n) for a natural number n
isdigit(s) == s # <<>> /\ \A k \in DOMAIN s : s[k] \in Digits
DigitChars == <<"0","1","2","3","4","5","6","7","8","9">>
RECURSIVE str(_)
str(n) == IF n < 10 THEN <<DigitChars[n + 1]>> ELSE str(n \div 10) \o <<DigitChars[(n % 10) + 1]>>

\* str.split(): the maximal runs of characters that are not whitespace
RECURSIVE split(_)
split(s) ==
    IF s = <<>> THEN <<>>
    ELSE IF IsSpace(s[1]) THEN split(Tail(s))
    ELSE LET e == IF \E j \in DOMAIN s : IsSpace(s[j])
                  THEN SetMin({j \in DOMAIN s : IsSpace(s[j])})
                  ELSE Len(s) + 1
         IN <<SubSeq(s, 1, e - 1)>> \o split(SubSeq(s, e, Len(s)))

\* [w for w in query.split() if len(w) > 3]
keywords(query) == SelectSeq(split(query), LAMBDA w : Len(w) > 3)

\* unique_activities[act['id']] = act on a dict kept in insertion order;
\* DictAppend is a list that keeps every act
DictAppend(d, act) == Append(d, act)
DictPut(d, act) ==
    IF \E i \in DOMAIN d : d[i].id = act.id
    THEN [i \in DOMAIN d |-> IF d[i].id = act.id THEN act ELSE d[i]]
    ELSE Append(d, act)
RECURSIVE DictPutAll(_, _)
DictPutAll(d, acts) ==
    IF acts = <<>> THEN d ELSE DictPutAll(DictPut(d, Head(acts)), Tail(acts))

\* list.sort(key=timestamp, reverse=True): stable
RECURSIVE SortByTimestampDesc(_)
SortByTimestampDesc(acts) ==
    IF acts = <<>> THEN <<>>
    ELSE LET rest == SortByTimestampDesc(Tail(acts))
             k == Cardinality({i \in DOMAIN rest : rest[i].timestamp > Head(acts).timestamp})
         IN SubSeq(rest, 1, k) \o <<Head(acts)>> \o SubSeq(rest, k + 1, Len(rest))

\* VectorStore.search_by_text: the activity ids of the results, none when
\* the collection raises
search_by_text(vector) == IF vector.kind = "raise" THEN <<>> ELSE vector.ids

\* a storage call and the ids of the rows it returned
Call(stage, fn, query, limit, rows) ==
    [stage |-> stage, fn |-> fn, query |-> query, limit |-> limit,
     ids |-> {rows[i].id : i \in DOMAIN rows}]

\* the ids of stage 1: [int(r['activity_id']) ... if isdigit()][:10]
activity_ids(results) ==
    LET digits == SelectSeq(results, isdigit)
    IN Limit([i \in DOMAIN digits |-> int(digits[i])], 10)

\* the tests that guard stages 2 and 3
KeywordStageAlways(unique_activities) == TRUE
KeywordStageEngaged(unique_activities) == Len(unique_activities) < 5
RecencyStageEngaged(unique_activities) == unique_activities = <<>>

(***************************************************************************)
(* SpecSearch: one call of QueryEngine.semantic_search, a step for each    *)
(* stage of the funnel                                                     *)
(***************************************************************************)
MaxRecords == 12

\* the tables: of several sizes, with titles that hold the row's id, with
\* the same title in every row, or with a word in the analysis of every
\* other row; stored in the order of their timestamps, against it, or two
\* rows to a timestamp
Table(n, order, content) ==
    {Row(i,
         CASE order = "asc" -> i [] order = "desc" -> n + 1 - i [] order = "ties" -> (i + 1) \div 2,
         CASE content = "docs" -> <<"d","o","c"," ">> \o str(i)
           [] content = "budget" -> <<"B","u","d","g","e","t"," ","n","o","t","e","s">>
           [] content = "mixed" -> <<"I","n","b","o","x">>,
         CASE content = "docs" -> <<"c","o","d","i","n","g">>
           [] content = "budget" -> <<"w","r","i","t","i","n","g">>
           [] content = "mixed" -> IF i % 2 = 1 THEN <<"b","u","d","g","e","t"," ","r","e","v","i","e","w"," ">> \o str(i) ELSE <<"e","m","a","i","l">>)
        : i \in 1..n}

\* the engine's order of equal timestamps matters only where there are some
Dbs ==
    {[rows |-> Table(x[1], x[2], x[3]), tiebreak |-> x[4]] :
        x \in {y \in {0, 1, 6, MaxRecords} \X {"asc", "desc", "ties"} \X
                      {"docs", "budget", "mixed"} \X {"asc", "desc"} :
                  y[2] = "ties" \/ y[4] = "asc"}}

\* what the collection answers: an error, nothing, ids of rows, ids that are
\* not numbers, more ids than are looked up
Vectors ==
    {[kind |-> "raise"]} \cup
    {[kind |-> "ok", ids |-> ids] :
        ids \in {<<>>,
                 [i \in 1..6 |-> str(i + 2)],
                 [i \in 1..4 |-> str(i + 2)],
                 <<<<"1">>, <<"2">>, <<"a","b","c">>>>,
                 [i \in 1..MaxRecords |-> str(i)]}}

SearchQueries == {<<"b","u","d","g","e","t">>, <<"f","i","n","d"," ","B","u","d","g","e","t"," ","n","o","t","e","s">>, <<"h","i">>, <<"q","u","a","r","t","e","r","l","y"," ","r","e","p","o","r","t">>, <<"r","e","v","i","e","w"," ","b","u","d","g","e","t">>}

InitSearch ==
    /\ arg \in {[query |-> q, db |-> db, vector |-> v] :
                    q \in SearchQueries, db \in Dbs, v \in Vectors}
    /\ ret = NoCall
    /\ InitAgent
    /\ InitEngine

\* stage 1: the vector search and the lookup of its first ten ids
VectorStage ==
    /\ ~ret.called
    /\ LET results == search_by_text(arg.vector)
           aids == activity_ids(results)
           db_results_list == [i \in DOMAIN aids |-> search_activities(arg.db, str(aids[i]), 1)]
           found == SelectSeq(db_results_list, LAMBDA res_list : res_list # <<>>)
           unique_activities == DictPutAll(<<>>, [i \in DOMAIN found |-> found[i][1]])
       IN ret' = [called |-> TRUE, step |-> "vector",
                  unique_activities |-> unique_activities,
                  calls |-> <<Call("vector", "search_by_text", arg.query, 20, <<>>)>> \o
                            [i \in DOMAIN aids |->
                                Call("vector", "search_activities", str(aids[i]), 1,
                                     db_results_list[i])]]
    /\ UNCHANGED <<arg, agentVars, engineVars>>

\* DictPutAll over the lists of a gather, in order
RECURSIVE Gathered(_, _)
Gathered(d, lists) ==
    IF lists = <<>> THEN d ELSE Gathered(DictPutAll(d, Head(lists)), Tail(lists))

\* stage 2: a search for every keyword, if stage 1 gathered too little
KeywordStage ==
    /\ ret.called
    /\ ret.step = "vector"
    /\ LET words == keywords(arg.query)
           keyword_results_list == [i \in DOMAIN words |-> search_activities(arg.db, words[i], 10)]
       IN IF KeywordStageEngaged(ret.unique_activities)
          THEN ret' = [ret EXCEPT
                          !.step = "keyword",
                          !.unique_activities = Gathered(@, keyword_results_list),
                          !.calls = @ \o [i \in DOMAIN words |->
                                            Call("keyword", "search_activities", words[i], 10,
                                                 keyword_results_list[i])]]
          ELSE ret' = [ret EXCEPT !.step = "keyword"]
    /\ UNCHANGED <<arg, agentVars, engineVars>>

\* stage 3: the most recent rows, if nothing was gathered
RecencyStage ==
    /\ ret.called
    /\ ret.step = "keyword"
    /\ LET recent_results == get_recent_activities(arg.db, 10)
       IN IF RecencyStageEngaged(ret.unique_activities)
          THEN ret' = [ret EXCEPT
                          !.step = "recency",
                          !.unique_activities = DictPutAll(@, recent_results),
                          !.calls = Append(@, Call("recency", "get_recent_activities",
                                                    <<>>, 10, recent_results))]
          ELSE ret' = [ret EXCEPT !.step = "recency"]
    /\ UNCHANGED <<arg, agentVars, engineVars>>

\* the values of the dict, sorted, are returned
ReturnActivities ==
    /\ ret.called
    /\ ret.step = "recency"
    /\ ret' = [ret EXCEPT !.step = "returned"] @@
              [out |-> SortByTimestampDesc(ret.unique_activities)]
    /\ UNCHANGED <<arg, agentVars, engineVars>>

NextSearch == VectorStage \/ KeywordStage \/ RecencyStage \/ ReturnActivities

SpecSearch == InitSearch /\ [][NextSearch]_vars

(***************************************************************************)
(* C18, C19, C20: the funnel                                               *)
(***************************************************************************)
\* the storage calls a stage has made, and the ids of the rows they returned
StageCalls(stage) == {i \in DOMAIN ret.calls : ret.calls[i].stage = stage}
GatheredBy(stage) == UNION {ret.calls[i].ids : i \in StageCalls(stage)}

\* C18: the keyword stage makes storage calls only if the vector stage
\* gathered fewer than 5 unique records; when it gathered 5 or more, no
\* keyword search and no recency fetch is made.
C18_FunnelShortCircuit ==
    ret.called =>
        /\ StageCalls("keyword") # {} => Cardinality(GatheredBy("vector")) < 5
        /\ Cardinality(GatheredBy("vector")) >= 5 =>
              StageCalls("keyword") = {} /\ StageCalls("recency") = {}

\* the vector stage gathered 5 records or more and the call returned without
\* a search for the keyword of the query, which rows of the table match
C18_Witness ==
    /\ ret.called
    /\ ret.step = "returned"
    /\ Cardinality(GatheredBy("vector")) >= 5
    /\ StageCalls("keyword") = {}
    /\ keywords(arg.query) # <<>>
    /\ search_activities(arg.db, keywords(arg.query)[1], 10) # <<>>

\* the rows of a list
Rows(acts) == {acts[i] : i \in DOMAIN acts}

\* C19: the recency stage is engaged only if the vector and the keyword
\* stage together gathered no record, and then the call returns exactly the
\* 10 most recent rows of the table (all of them if there are fewer), so
\* that the result is not empty when the table is not.
C19_RecencyStage ==
    ret.called =>
        /\ StageCalls("recency") # {} => GatheredBy("vector") \cup GatheredBy("keyword") = {}
        /\ (ret.step = "returned" /\ StageCalls("recency") # {}) =>
              /\ Len(ret.out) = IF Cardinality(arg.db.rows) < 10
                                THEN Cardinality(arg.db.rows) ELSE 10
              /\ Cardinality(Rows(ret.out)) = Len(ret.out)
              /\ Rows(ret.out) \subseteq arg.db.rows
              /\ \A o \in Rows(ret.out), r \in arg.db.rows \ Rows(ret.out) :
                    o.timestamp >= r.timestamp
        /\ (ret.step = "returned" /\ arg.db.rows # {}) => ret.out # <<>>

\* nothing matched in a table of more than 10 rows: the 10 most recent ones
\* were returned
C19_Witness ==
    /\ ret.called
    /\ ret.step = "returned"
    /\ StageCalls("recency") # {}
    /\ Cardinality(arg.db.rows) > 10
    /\ Len(ret.out) = 10

\* C20: no two records of the returned list share an id, a record that
\* several stages or several keywords surfaced is in it exactly once, and
\* the list is in descending order of timestamp.
C20_Deduplicated ==
    (ret.called /\ ret.step = "returned") =>
        /\ \A i, j \in DOMAIN ret.out : ret.out[i].id = ret.out[j].id => i = j
        /\ \A k \in DOMAIN ret.calls : \A id \in ret.calls[k].ids :
              Cardinality({i \in DOMAIN ret.out : ret.out[i].id = id}) = 1
        /\ \A i \in 1..(Len(ret.out) - 1) : ret.out[i].timestamp >= ret.out[i + 1].timestamp

\* a record was surfaced by the vector stage and by two keywords, and the
\* list returned has several records
C20_Witness ==
    /\ ret.called
    /\ ret.step = "returned"
    /\ Len(ret.out) > 1
    /\ \E id \in GatheredBy("vector") :
          Cardinality({k \in StageCalls("keyword") : id \in ret.calls[k].ids}) > 1

(***************************************************************************)
(* core/query_engine.py: synthesize_response and _fallback_list_response   *)
(***************************************************************************)
S_Apology ==
    <<"I","'","v","e"," ","c","h","e","c","k","e","d"," ","y","o","u","r",
      " ","h","i","s","t","o","r","y",","," ","b","u","t"," ","I"," ","h",
      "a","v","e","n","'","t"," ","r","e","c","o","r","d","e","d"," ","e",
      "n","o","u","g","h"," ","s","i","g","n","i","f","i","c","a","n","t",
      " ","a","c","t","i","v","i","t","y"," ","y","e","t"," ","t","o"," ",
      "a","n","s","w","e","r"," ","t","h","a","t"," ","s","p","e","c","i",
      "f","i","c"," ","q","u","e","s","t","i","o","n","."," ","A","s"," ",
      "y","o","u"," ","u","s","e"," ","y","o","u","r"," ","c","o","m","p",
      "u","t","e","r"," ","m","o","r","e",","," ","I","'","l","l"," ","b",
      "u","i","l","d"," ","a"," ","b","e","t","t","e","r"," ","m","e","m",
      "o","r","y",".">>
S_NoRecentActivity ==
    <<"I"," ","c","o","u","l","d","n","'","t"," ","f","i","n","d"," ","a",
      "n","y"," ","r","e","c","e","n","t"," ","a","c","t","i","v","i","t",
      "y",".">>
S_LowPower ==
    <<"I","'","m"," ","c","u","r","r","e","n","t","l","y"," ","r","u","n",
      "n","i","n","g"," ","i","n"," ","l","o","w","-","p","o","w","e","r",
      " ","m","o","d","e"," ","(","A","P","I"," ","l","i","m","i","t",")",
      ","," ","b","u","t"," ","I"," ","c","a","n"," ","s","e","e"," ","y",
      "o","u","'","v","e"," ","m","o","s","t","l","y"," ","b","e","e","n",
      " ","u","s","i","n","g"," ","*","*">>
S_AlsoNoticed ==
    <<" ","I"," ","a","l","s","o"," ","n","o","t","i","c","e","d"," ","a",
      "c","t","i","v","i","t","y"," ","i","n"," ","*","*">>
S_YouWereCoding ==
    <<"Y","o","u"," ","w","e","r","e"," ","c","o","d","i","n","g",".">>

\* app_counts: the apps of the activities in the order of their first
\* occurrence, each with the number of its activities
RECURSIVE app_counts(_)
app_counts(acts) ==
    IF acts = <<>> THEN <<>>
    ELSE LET before == app_counts(SubSeq(acts, 1, Len(acts) - 1))
             app == acts[Len(acts)].app_name
         IN IF \E i \in DOMAIN before : before[i][1] = app
            THEN [i \in DOMAIN before |->
                    IF before[i][1] = app THEN <<app, before[i][2] + 1>> ELSE before[i]]
            ELSE Append(before, <<app, 1>>)

\* sorted(items, key=lambda x: x[1], reverse=True): stable
RECURSIVE SortByCountDesc(_)
SortByCountDesc(items) ==
    IF items = <<>> THEN <<>>
    ELSE LET rest == SortByCountDesc(Tail(items))
             k == Cardinality({i \in DOMAIN rest : rest[i][2] > Head(items)[2]})
         IN SubSeq(rest, 1, k) \o <<Head(items)>> \o SubSeq(rest, k + 1, Len(rest))

\* ', '.join(words)
RECURSIVE JoinComma(_)
JoinComma(words) ==
    IF words = <<>> THEN <<>>
    ELSE IF Len(words) = 1 THEN words[1]
    ELSE words[1] \o <<",", " ">> \o JoinComma(Tail(words))

_fallback_list_response(acts) ==
    IF acts = <<>> THEN S_NoRecentActivity
    ELSE LET sorted_apps == SortByCountDesc(app_counts(acts))
             top_app == sorted_apps[1][1]
             next == SubSeq(sorted_apps, 2, IF Len(sorted_apps) < 3 THEN Len(sorted_apps) ELSE 3)
             picked == SelectSeq(next, LAMBDA a : a[1] # top_app)
             others == [i \in DOMAIN picked |-> picked[i][1]]
             response == S_LowPower \o top_app \o <<"*", "*", ".">>
         IN IF others # <<>>
            THEN response \o S_AlsoNoticed \o JoinComma(others) \o <<"*", "*", ".">>
            ELSE response

\* synthesize_response(query, activities), given the outcome of
\* chat_model.generate_content_async: it raises, it returns a response
\* whose .text raises (no parts), or it returns a response with a text
synthesize_response(acts, chat) ==
    IF acts = <<>> THEN S_Apology
    ELSE IF chat.kind = "text" THEN chat.text
    ELSE _fallback_list_response(acts)

(***************************************************************************)
(* SpecAnswer: the answer process_query builds from the activities found   *)
(***************************************************************************)
MaxActivities == 4

\* the lists of retrieved activities, by their app
RECURSIVE ActivityLists(_)
ActivityLists(n) ==
    IF n = 0 THEN {<<>>}
    ELSE ActivityLists(n - 1) \cup
         {Append(l, [app_name |-> a]) :
             l \in {x \in ActivityLists(n - 1) : Len(x) = n - 1},
             a \in {S_Mail, S_Code, S_Zoom}}

ChatOutcomes ==
    {[kind |-> "raise"], [kind |-> "notext"],
     [kind |-> "text", text |-> <<>>], [kind |-> "text", text |-> S_YouWereCoding]}

InitAnswer ==
    /\ arg \in {[activities |-> l, chat |-> c] :
                    l \in ActivityLists(MaxActivities), c \in ChatOutcomes}
    /\ ret = NoCall
    /\ InitAgent
    /\ InitEngine

SynthesizeResponse ==
    /\ ~ret.called
    /\ ret' = [called |-> TRUE, out |-> synthesize_response(arg.activities, arg.chat)]
    /\ UNCHANGED <<arg, agentVars, engineVars>>

NextAnswer == SynthesizeResponse

SpecAnswer == InitAnswer /\ [][NextAnswer]_vars

\* the number of activities of an app, and the apps no other app exceeds
CountOf(app, acts) ==
    Cardinality({i \in DOMAIN acts : acts[i].app_name = app})
MostFrequentApps(acts) ==
    {acts[i].app_name : i \in
        {j \in DOMAIN acts :
            \A k \in DOMAIN acts :
                CountOf(acts[k].app_name, acts) <=
                CountOf(acts[j].app_name, acts)}}

\* the chat call failed
ChatFailed(chat) == chat.kind \in {"raise", "notext"}

\* the fallback text names a most frequent app
FallbackNamesMostFrequent ==
    (ret.called /\ ChatFailed(arg.chat) /\ arg.activities # <<>>) =>
        \E a \in MostFrequentApps(arg.activities) :
            SubSeq(ret.out, 1, Len(S_LowPower) + Len(a) + 3) =
                S_LowPower \o a \o <<"*", "*", ".">>

\* C21: the answer returned is never empty, whatever the query finds and
\* whatever the inference call does; when the chat call fails on a
\* non-empty list of activities the answer is the fallback that names the
\* most frequent app of the list.
C21_NeverEmptyAnswer ==
    /\ ret.called => ret.out # <<>>
    /\ FallbackNamesMostFrequent

(***************************************************************************)
(* C22: the priority of analyses, records and alerts                       *)
(***************************************************************************)
\* store_activity: priority = analysis.get('priority', 'low') if analysis
\* else 'low'
stored_priority(an) ==
    IF an = EmptyDict THEN Str(S_low) ELSE Get(an, "priority", Str(S_low))

\* evaluate_situation: the priority of the alert an interrupting analysis fires
interrupt_priority(an) == Get(an, "priority", Str(S_medium))

IsPriority(v) == \E p \in Priorities : v = Str(p)

\* C22: the priority of the analysis the analysis step returns, of the
\* record persisted from it and of the alert fired from it is one of low,
\* medium, high, critical, also when the reply of the inference service has
\* no priority or another value in it.
C22_PriorityEnumerated ==
    (ret.called /\ ~ret.out.raised) =>
        /\ IsPriority(ret.out.value["priority"])
        /\ IsPriority(stored_priority(ret.out.value))
        /\ IsPriority(interrupt_priority(ret.out.value))

\* the same for replies without a priority field
PriorityDefaulted ==
    (/\ ret.called
     /\ ~ret.out.raised
     /\ arg.reply.kind = "json" => arg.reply.obj["priority"] = Missing) =>
        /\ ret.out.value["priority"] = Str(S_low)
        /\ stored_priority(ret.out.value) = Str(S_low)

(***************************************************************************)
(* core/knowledge_synthesis.py: find_connections and get_topic_memories.   *)
(* A timestamp is the number of its day; an entry of the vector index is   *)
(* [activity_id, document, timestamp].                                     *)
(***************************************************************************)
SynthesisKeys ==
    {"patterns", "connections", "gaps", "insights", "summary",
     "topic", "memories_analyzed", "time_range_days", "generated_at"}
EmptySynthesis == [k \in SynthesisKeys |-> Missing]

\* the dict find_connections returns when there is no memory
NoMemoriesResult(topic, days) ==
    [EmptySynthesis EXCEPT
        !["patterns"] = List(<<>>),
        !["connections"] = List(<<>>),
        !["gaps"] = List(<<Str(<<"N","o"," ","m","e","m","o","r","i","e","s"," ","f","o","u","n","d"," ","f","o","r"," ","t","h","i","s"," ","t","o","p","i","c">>)>>),
        !["insights"] = List(<<>>),
        !["summary"] = Str(<<"N","o"," ","a","c","t","i","v","i","t","i","e","s"," ","f","o","u","n","d"," ","r","e","l","a","t","e","d"," ","t","o"," ","\"">> \o topic \o <<"\""," ","i","n"," ","t","h","e"," ","p","a","s","t"," ">> \o str(days) \o <<" ","d","a","y","s",".">>)]

\* GeminiClient.generate_query_embedding: the requests it sends to the
\* embedding model (none for a blank query); a failed request falls back
\* to a hash
generate_query_embedding(query) ==
    IF Strip(query) = <<>> THEN <<>> ELSE <<"embed_content">>

\* VectorStore.semantic_search(query_embedding, limit): the nearest entries,
\* none when the collection raises
vector_semantic_search(index, limit) ==
    IF index.kind = "raise" THEN <<>> ELSE Limit(index.entries, limit)

\* get_topic_memories(topic, days): the memories and the requests sent
get_topic_memories(topic, days, index) ==
    LET results == vector_semantic_search(index, 50)
    IN [memories |-> [i \in DOMAIN results |->
                        [activity_id |-> results[i].activity_id,
                         activity |-> results[i].document,
                         timestamp |-> results[i].timestamp]],
        requests |-> generate_query_embedding(topic)]

\* GeminiClient.synthesize_knowledge, given the outcome of the chat call
synthesize_knowledge(reply) ==
    CASE reply.kind = "json" -> reply.obj
      [] reply.kind = "text" ->
            [EmptySynthesis EXCEPT
                !["patterns"] = List(<<>>), !["connections"] = List(<<>>),
                !["gaps"] = List(<<>>), !["insights"] = List(<<>>),
                !["summary"] = Str(<<"U","n","a","b","l","e"," ","t","o"," ","s","y","n","t","h","e","s","i","z","e">>)]
      [] reply.kind = "raise" ->
            [EmptySynthesis EXCEPT
                !["patterns"] = List(<<>>), !["connections"] = List(<<>>),
                !["gaps"] = List(<<>>), !["insights"] = List(<<>>),
                !["summary"] = Str(<<"E","r","r","o","r",":"," ">> \o reply.msg)]

(***************************************************************************)
(* SpecSynthesis: one call of KnowledgeSynthesis.find_connections          *)
(***************************************************************************)
MaxAge == 40

\* the index: an error, or entries of today, of five days ago and of
\* MaxAge days ago, on day `today`
Indexes ==
    {[kind |-> "raise", today |-> 100]} \cup
    {[kind |-> "ok", today |-> 100,
      entries |-> SelectSeq(<<[activity_id |-> <<"1">>, document |-> S_Writing, timestamp |-> 100],
                              [activity_id |-> <<"2">>, document |-> S_Writing, timestamp |-> 95],
                              [activity_id |-> <<"3">>, document |-> S_Writing,
                               timestamp |-> 100 - MaxAge]>>,
                            LAMBDA e : e.activity_id \in ids)] :
        ids \in SUBSET {<<"1">>, <<"2">>, <<"3">>}}

Topics == {<<"b","u","d","g","e","t">>, <<" ", " ">>, <<>>}
LookbackDays == {7, 30}

\* what the chat model answers to the synthesis prompt
SynthesisReplies ==
    {[kind |-> "raise", msg |-> S_timeout], [kind |-> "text"],
     [kind |-> "json", obj |-> EmptySynthesis],
     [kind |-> "json",
      obj |-> [EmptySynthesis EXCEPT !["patterns"] = List(<<Str(S_Writing)>>),
                                     !["summary"] = Str(S_Writing),
                                     !["topic"] = Str(S_hello)]]}

InitSynthesis ==
    /\ arg \in {[topic |-> t, days |-> d, index |-> x, reply |-> r] :
                    t \in Topics, d \in LookbackDays, x \in Indexes, r \in SynthesisReplies}
    /\ ret = NoCall
    /\ InitAgent
    /\ InitEngine

\* memories = await self.get_topic_memories(topic, days)
GetTopicMemories ==
    /\ ~ret.called
    /\ LET found == get_topic_memories(arg.topic, arg.days, arg.index)
       IN ret' = [called |-> TRUE, step |-> "memories",
                  memories |-> found.memories, requests |-> found.requests]
    /\ UNCHANGED <<arg, agentVars, engineVars>>

\* if not memories: return {...}
ReturnNoMemories ==
    /\ ret.called
    /\ ret.step = "memories"
    /\ ret.memories = <<>>
    /\ ret' = [ret EXCEPT !.step = "returned"] @@
              [out |-> NoMemoriesResult(arg.topic, arg.days)]
    /\ UNCHANGED <<arg, agentVars, engineVars>>

\* the synthesis by the chat model, and the metadata added to it
Synthesize ==
    /\ ret.called
    /\ ret.step = "memories"
    /\ ret.memories # <<>>
    /\ ret' = [ret EXCEPT !.step = "returned",
                          !.requests = Append(@, "generate_content")] @@
              [out |-> [synthesize_knowledge(arg.reply) EXCEPT
                            !["topic"] = Str(arg.topic),
                            !["memories_analyzed"] = Num(Len(ret.memories)),
                            !["time_range_days"] = Num(arg.days),
                            !["generated_at"] = Num(arg.index.today)]]
    /\ UNCHANGED <<arg, agentVars, engineVars>>

NextSynthesis == GetTopicMemories \/ ReturnNoMemories \/ Synthesize

SpecSynthesis == InitSynthesis /\ [][NextSynthesis]_vars

\* with memories, the result carries the topic, the number of memories, the
\* time range and the time of its generation
MetadataAttached ==
    (ret.called /\ ret.step = "returned" /\ ret.memories # <<>>) =>
        /\ ret.out["topic"] = Str(arg.topic)
        /\ ret.out["memories_analyzed"] = Num(Len(ret.memories))
        /\ ret.out["time_range_days"] = Num(arg.days)
        /\ ret.out["generated_at"] = Num(arg.index.today)

\* without memories the empty-result structure is returned and the chat
\* model is not asked
NoSynthesisWithoutMemories ==
    (ret.called /\ ret.step = "returned" /\ ret.memories = <<>>) =>
        /\ ret.out = NoMemoriesResult(arg.topic, arg.days)
        /\ \A i \in DOMAIN ret.requests : ret.requests[i] # "generate_content"

\* C23: when retrieval finds no memory, find_connections returns the
\* empty-result structure and has sent no request to the inference service
\* at any point of the call; when memories are found the result carries the
\* topic, the memory count, the time range and a generation timestamp.
C23_NoInferenceWithoutMemories ==
    /\ (ret.called /\ ret.memories = <<>>) => ret.requests = <<>>
    /\ (ret.called /\ ret.step = "returned" /\ ret.memories = <<>>) =>
          ret.out = NoMemoriesResult(arg.topic, arg.days)
    /\ MetadataAttached

\* C26: every memory find_connections counts and passes on has a timestamp
\* within the last `days` days, whatever older entries the index holds.
C26_LookbackWindow ==
    ret.called =>
        \A i \in DOMAIN ret.memories :
            ret.memories[i].timestamp >= arg.index.today - arg.days

(***************************************************************************)
(* C24: the records of the vector stage                                    *)
(***************************************************************************)
\* the activity ids the vector index returned for the query
IndexIds ==
    LET results == search_by_text(arg.vector)
    IN {int(results[i]) : i \in {j \in DOMAIN results : isdigit(results[j])}}

\* C24: every record the vector stage of semantic_search adds to the result
\* has the id of one of the activity ids the vector index returned for the
\* query.
C24_HydrationById ==
    ret.called => GatheredBy("vector") \subseteq IndexIds

(***************************************************************************)
(* C25: an evaluation that matches no rule                                 *)
(***************************************************************************)
\* the evaluation recorded in ev matched none of the rules: no AI
\* interrupt, and neither the email, nor the duplicate-work, nor the
\* password conditions
NoRuleMatches ==
    /\ ev.called
    /\ ~Truthy(Get(ev.analysis, "should_interrupt", Bool(FALSE)))
    /\ RuleFieldsAreStrings(ev.analysis)
    /\ ~EmailConditions(ev.capture_data, ev.analysis)
    /\ ev.after.similar # NoQuery
    /\ ~\E i \in DOMAIN ev.after.similar.dist : ev.after.similar.dist[i] < DuplicateDistance
    /\ ~PasswordConditions(ev.capture_data, ev.analysis)

\* such an evaluation fires nothing and changes neither the cooldown map
\* nor the count
NoMatchChangesNothing ==
    NoRuleMatches =>
        /\ ev.after.fired = <<>>
        /\ ev.after.history = ev.before.history
        /\ ev.after.count = ev.before.count

\* C25: an evaluation that matches none of the rules reaches the
\* deadline-approaching check and completes without raising; it fires no
\* alert and leaves the cooldown map and the alert count as they were.
C25_NoMatchCompletesNormally ==
    /\ NoRuleMatches => ~ev.after.raised
    /\ NoMatchChangesNothing

(***************************************************************************)
(* C30: a failed audit write                                               *)
(***************************************************************************)
\* the audit write of the alert of type X was made and failed
AuditFailed(r, X) == \E i \in DOMAIN r.stores : r.stores[i] = [type |-> X, ok |-> FALSE]

\* C30: when the audit write of an alert fails the alert does not fire: its
\* type is not stamped, it is not counted and not handed to the callback,
\* and the same evaluation made again can fire it.
C30_AuditFailureFiresNothing ==
    ev.called =>
        \A X \in AlertTypes :
            AuditFailed(ev.after, X) =>
                /\ X \notin FiredTypes(ev.after)
                /\ X \in DOMAIN ev.after.history <=> X \in DOMAIN ev.before.history
                /\ X \in DOMAIN ev.before.history =>
                      ev.after.history[X] = ev.before.history[X]
                /\ ev.after.count = ev.before.count + Len(ev.after.fired)
                /\ X \notin DeliveredTypes(ev.before, ev.after)
                /\ \E r \in evaluate_situation(
                              Frame(ev.after.history, ev.after.count, ev.after.events,
                                    ev.after.delivered, ev.after.registered),
                              ev.now, ev.capture_data, ev.analysis) :
                      X \in FiredTypes(r)

\* with a callback registered, the audit write of an alert failed and the
\* evaluation fired nothing
C30_Witness ==
    /\ ev.called
    /\ ev.before.registered
    /\ \E X \in AlertTypes : AuditFailed(ev.after, X)
    /\ ev.after.fired = <<>>
    /\ ev.after.count = ev.before.count
    /\ ev.after.history = ev.before.history

(***************************************************************************)
(* C29: the order of the ends of a resolved range                          *)
(***************************************************************************)
\* datetime a <= datetime b
NotAfter(a, b) ==
    \/ ToSeconds(a) < ToSeconds(b)
    \/ ToSeconds(a) = ToSeconds(b) /\ a.microsecond <= b.microsecond

\* the time types other than this_afternoon resolve to a range whose start
\* is not after its end
OrderedExceptAfternoon ==
    (ret.called /\ ret.step = "resolved"
        /\ ret.class.params.time_type # "this_afternoon") =>
        NotAfter(ret.range.start, ret.range.end)

\* C29: for every time type and every current time the resolved range has
\* start <= end.
C29_StartNotAfterEnd ==
    (ret.called /\ ret.step = "resolved") =>
        NotAfter(ret.range.start, ret.range.end)

(***************************************************************************)
(* C27: the vector index and the activity records                          *)
(***************************************************************************)
\* the records whose id is e
RecordsWithId(e) == {i \in DOMAIN activities : activities[i].id = e}

\* C27: every entry of the vector index has the id of exactly one persisted
\* activity record, and the index changes only in a step that persists a
\* record, by the entry of that record's id: a failed record write leaves
\* the index as it was, and no entry belongs to an item whose record write
\* failed.
C27_IndexEntriesHaveRecords ==
    /\ [](\A e \in embeddings : Cardinality(RecordsWithId(e)) = 1)
    /\ [](\A i, j \in DOMAIN activities :
            activities[i].id = activities[j].id => i = j)
    /\ [][embeddings' # embeddings =>
            /\ Len(activities') = Len(activities) + 1
            /\ embeddings' = embeddings \cup {activities'[Len(activities')].id}]_vars
    /\ [](\A e \in embeddings : \A i \in RecordsWithId(e) :
            /\ activities[i].type = "screen"
            /\ ~FailedAt("screen", activities[i].item, "store"))

\* the record write of one screen item failed, another screen item has its
\* entry in the index, and an audio record has none
C27_Witness ==
    /\ \E k \in 1..n_enq["screen"] : FailedAt("screen", k, "store")
    /\ \E e \in embeddings : \E i \in RecordsWithId(e) : activities[i].type = "screen"
    /\ \E i \in DOMAIN activities :
        activities[i].type = "audio" /\ activities[i].id \notin embeddings

(***************************************************************************)
(* C28: the counters of get_stats                                          *)
(***************************************************************************)
\* the counter of consumer c
ProcessedCount(c) == IF c = "screen" THEN processed_count ELSE audio_processed_count

\* the records of consumer c whose item is no longer being processed
PersistedAndEnded(c) ==
    {i \in DOMAIN activities : activities[i].type = c /\ Ended(c, activities[i].item)}

\* the items of consumer c that went through the whole loop body
Completed(c) ==
    {k \in 1..n_enq[c] : \E i \in DOMAIN trace[c] : trace[c][i] = Event("done", k)}

\* each counter is the number of items that went through the whole loop
\* body, every one of which has a record, and never exceeds the number of
\* records
CountsCompletedItems ==
    \A c \in Consumers :
        /\ ProcessedCount(c) = Cardinality(Completed(c))
        /\ \A k \in Completed(c) : RecordsOf(c, k) # {}
        /\ ProcessedCount(c) <= Cardinality(PersistedAndEnded(c))

\* C28: once an item is no longer being processed, each counter equals the
\* number of items of its consumer whose record was persisted, whatever the
\* callback of the item did.
C28_CountsEqualPersisted ==
    \A c \in Consumers : ProcessedCount(c) = Cardinality(PersistedAndEnded(c))

==========================================================================
